---------------------------- MODULE Spec2Model ----------------------------
(***************************************************************************)
(* Model of the OScape custom-function DLL (src/src/custom.cpp): the       *)
(* exported entry point CustomFunctionExample, which decodes a fixed-width *)
(* key/value buffer, builds a GET URL, performs the request through curl   *)
(* and optionally packs the response body into the outbound buffer.        *)
(*                                                                         *)
(* Bytes are the integers 0..255 and C strings are sequences of bytes, so  *)
(* that offsets, zero terminators and truncation are what the code makes   *)
(* them.  A pointer is a record [null, mem]: mem is the caller's buffer.   *)
(*                                                                         *)
(* Memory allocation is taken to succeed: curl_easy_escape returns a       *)
(* result for every value it is given, and Spec, the specification of one  *)
(* call, has no step that throws.  SpecCalls, the specification of a host  *)
(* that calls again and again, adds the steps in which an exception is     *)
(* thrown and caught; SpecThreads runs the calls on several threads, and   *)
(* SpecDllMain is the loader's notifications to DllMain.                   *)
(***************************************************************************)
EXTENDS Integers, Sequences, FiniteSets, TLC

\* ------------------------------------------------------------------ constants

HEADER_SIZE == 2
KEY_SIZE == 32
VALUE_SIZE == 128
PAIR_SIZE == KEY_SIZE + VALUE_SIZE
SUCCESS == 0
FAIL == 1
\* the "arbitrary limit for safety" on the declared parameter count
MAX_PARAMETERS == 100
\* the CURLcode of a transfer that completed
CURLE_OK == 0

\* the largest number of records of an enumerated well-formed inbound buffer
MaxRecords == 2
\* bytes the caller's outbound buffer holds beyond the 162 the format needs
OutSlack == 2
\* calls a thread of the host makes after its first
MaxCalls == 2
\* notifications the loader sends to DllMain
MaxNotifications == 4

\* ------------------------------------------------------------ bytes, strings

Pad(s, n) == s \o [i \in 1..(n - Len(s)) |-> 0]
Fill(b, n) == [i \in 1..n |-> b]
Min(a, b) == IF a < b THEN a ELSE b

\* "CFResp", "yes"
CFResp == <<67, 70, 82, 101, 115, 112>>
Yes == <<121, 101, 115>>

\* strlen: the number of bytes before the first zero byte of a buffer that
\* holds one (the code only calls it on buffers it has terminated itself)
StrLen(buf) == (CHOOSE i \in 1..Len(buf) : buf[i] = 0 /\ \A j \in 1..(i - 1) : buf[j] # 0) - 1

\* std::string(const char*) / std::string_view(const char*): the bytes before
\* the terminator
CStr(buf) == SubSeq(buf, 1, StrLen(buf))

\* std::string::c_str(): the bytes of the string followed by a zero byte
c_str(s) == s \o <<0>>

\* memcpy(dst + at, src, n) with 0-based offset `at`
memcpy(dst, at, src, n) ==
    [i \in 1..Len(dst) |-> IF i > at /\ i <= at + n THEN src[i - at] ELSE dst[i]]

\* strncpy(dst, src, n): copies up to the terminator of src, at most n bytes,
\* and fills what is left of the n bytes with zero bytes
strncpy(dst, src, n) ==
    LET l == Min(StrLen(src), n) IN
    [i \in 1..Len(dst) |-> IF i <= l THEN src[i] ELSE IF i <= n THEN 0 ELSE dst[i]]

\* std::string operator<: lexicographic on unsigned bytes, a proper prefix first
StrLess(a, b) ==
    \E i \in 1..Len(b) :
        /\ \A j \in 1..(i - 1) : j <= Len(a) /\ a[j] = b[j]
        /\ (i > Len(a) \/ a[i] < b[i])

\* ----------------------------------------------------------------- atoi

IsSpace(c) == c = 32 \/ (c >= 9 /\ c <= 13)
IsDigit(c) == c >= 48 /\ c <= 57

RECURSIVE AtoiDigits(_, _, _)
AtoiDigits(s, i, acc) ==
    IF i <= Len(s) /\ IsDigit(s[i]) THEN AtoiDigits(s, i + 1, acc * 10 + (s[i] - 48))
    ELSE acc

RECURSIVE AtoiSkip(_, _)
AtoiSkip(s, i) == IF i <= Len(s) /\ IsSpace(s[i]) THEN AtoiSkip(s, i + 1) ELSE i

\* a parse that gives 0 as soon as a byte before the terminator is not a digit
atoi_DigitsOnly(s) ==
    LET n == StrLen(s) IN
    IF \A i \in 1..n : IsDigit(s[i]) THEN AtoiDigits(s, 1, 0) ELSE 0

\* atoi on a zero-terminated buffer: leading white space, an optional sign,
\* then digits up to the first byte that is not one
atoi(s) ==
    LET i == AtoiSkip(s, 1) IN
    IF i <= Len(s) /\ s[i] = 45 THEN 0 - AtoiDigits(s, i + 1, 0)
    ELSE IF i <= Len(s) /\ s[i] = 43 THEN AtoiDigits(s, i + 1, 0)
    ELSE AtoiDigits(s, i, 0)

\* a conversion that takes a negative number to 0
ToUnsigned_ClampsNegative(n) ==
    IF n < 0 THEN [hi |-> 0, lo |-> 0] ELSE [hi |-> (n \div 65536) % 65536, lo |-> n % 65536]

\* an unsigned int (32 bits) is kept as its two 16-bit halves, hi * 65536 + lo
\* conversion of an int to unsigned int: the value modulo 2^32
ToUnsigned(n) == [hi |-> (n \div 65536) % 65536, lo |-> n % 65536]
\* u > k for an unsigned u and a constant k below 65536
UGreater(u, k) == u.hi > 0 \/ u.lo > k
\* the value of an unsigned int that is below 65536
UValue(u) == u.lo
\* what printf's %d shows of an unsigned int
AsInt(u) == (IF u.hi >= 32768 THEN u.hi - 65536 ELSE u.hi) * 65536 + u.lo

\* const unsigned int numParameters = atoi(numParametersAsString)
ParseCount(mem) == ToUnsigned(atoi(<<mem[1], mem[2], 0>>))

\* ------------------------------------------------------------ std::map

\* std::map<std::string, std::string>: a sequence of entries in strictly
\* ascending key order, which is the order a range-for visits them in
MapHas(m, k) == \E i \in DOMAIN m : m[i].key = k
MapGet(m, k) == m[CHOOSE i \in DOMAIN m : m[i].key = k].value

\* a map that keeps its entries in the order they were first inserted
MapAssign_Unordered(m, k, v) ==
    IF MapHas(m, k)
    THEN [i \in DOMAIN m |-> IF m[i].key = k THEN [key |-> k, value |-> v] ELSE m[i]]
    ELSE Append(m, [key |-> k, value |-> v])

\* an insert that leaves an entry that is already there as it is
MapAssign_KeepFirst(m, k, v) ==
    IF MapHas(m, k) THEN m
    ELSE LET pos == Cardinality({i \in DOMAIN m : StrLess(m[i].key, k)}) IN
         SubSeq(m, 1, pos) \o <<[key |-> k, value |-> v]>> \o SubSeq(m, pos + 1, Len(m))

\* parameters[keyStr] = valueStr
MapAssign(m, k, v) ==
    IF MapHas(m, k)
    THEN [i \in DOMAIN m |-> IF m[i].key = k THEN [key |-> k, value |-> v] ELSE m[i]]
    ELSE LET pos == Cardinality({i \in DOMAIN m : StrLess(m[i].key, k)}) IN
         SubSeq(m, 1, pos) \o <<[key |-> k, value |-> v]>> \o SubSeq(m, pos + 1, Len(m))

\* ------------------------------------------------------------ decoding

\* a key index that leaves the header out
KeyIndex_NoHeader(i) == i * PAIR_SIZE

\* const unsigned int keyIndex = HEADER_SIZE + i * PAIR_SIZE;
KeyIndex(i) == HEADER_SIZE + i * PAIR_SIZE
\* const unsigned int valueIndex = keyIndex + KEY_SIZE;
ValueIndex(i) == KeyIndex(i) + KEY_SIZE

\* the offsets of dataIn the call reads: dataIn[0] and dataIn[1] for the count,
\* and for record i the source ranges of the two memcpy
HeaderReads == {0, 1}
RecordReads(i) ==
    (KeyIndex(i)..(KeyIndex(i) + KEY_SIZE - 1)) \cup (ValueIndex(i)..(ValueIndex(i) + VALUE_SIZE - 1))
LoopReads(n) == UNION {RecordReads(i) : i \in 0..(n - 1)}

\* one pass of the loop body: the two memcpy into zero-initialised buffers of
\* KEY_SIZE + 1 and VALUE_SIZE + 1 bytes, the explicit terminators, and the
\* strings taken from them
\* a key read as a C string straight from the buffer, with no terminator of
\* its own after KEY_SIZE bytes
DecodeKey_Unterminated(img, i) ==
    LET keyIndex == HEADER_SIZE + i * PAIR_SIZE IN
    CStr(c_str(SubSeq(img, keyIndex + 1, Len(img))))

DecodeKey(img, i) ==
    LET keyIndex == KeyIndex(i)
        key == memcpy(Fill(0, KEY_SIZE + 1), 0, SubSeq(img, keyIndex + 1, keyIndex + KEY_SIZE), KEY_SIZE)
    IN CStr([key EXCEPT ![KEY_SIZE + 1] = 0])

DecodeValue(img, i) ==
    LET valueIndex == ValueIndex(i)
        value == memcpy(Fill(0, VALUE_SIZE + 1), 0, SubSeq(img, valueIndex + 1, valueIndex + VALUE_SIZE), VALUE_SIZE)
    IN CStr([value EXCEPT ![VALUE_SIZE + 1] = 0])

\* a check that takes the value "1" as well as "yes"
FlagAfter_YesOrOne(flag, keyStr, valueStr) ==
    flag \/ (keyStr = CFResp /\ (valueStr = Yes \/ valueStr = <<49>>))

\* a check of the key alone
FlagAfter_AnyValue(flag, keyStr, valueStr) == flag \/ keyStr = CFResp

\* if (keyStr == "CFResp" && valueStr == "yes") shouldReturnResponse = true;
FlagAfter(flag, keyStr, valueStr) == flag \/ (keyStr = CFResp /\ valueStr = Yes)

\* for (i = 0; i < numParameters; i++) { ... }: the state of the loop is the
\* map and the flag
RECURSIVE DecodeLoop(_, _, _, _)
DecodeLoop(img, i, n, st) ==
    IF i >= n THEN st
    ELSE LET keyStr == DecodeKey(img, i)
             valueStr == DecodeValue(img, i)
         IN DecodeLoop(img, i + 1, n,
                       [parameters |-> MapAssign(st.parameters, keyStr, valueStr),
                        shouldReturnResponse |-> FlagAfter(st.shouldReturnResponse, keyStr, valueStr)])

Decode(img, n) == DecodeLoop(img, 0, n, [parameters |-> <<>>, shouldReturnResponse |-> FALSE])

\* ------------------------------------------------------------ URL

IsAlnum(c) == IsDigit(c) \/ (c >= 65 /\ c <= 90) \/ (c >= 97 /\ c <= 122)
\* the characters curl_easy_escape leaves as they are: A-Z a-z 0-9 - . _ ~
IsUnreserved(c) == IsAlnum(c) \/ c = 45 \/ c = 46 \/ c = 95 \/ c = 126
HexDigit(n) == IF n < 10 THEN 48 + n ELSE 55 + n

\* an escape that writes a space as "+", as form encoding does
EscapeByte_PlusForSpace(c) ==
    IF c = 32 THEN <<43>>
    ELSE IF IsUnreserved(c) THEN <<c>> ELSE <<37, HexDigit(c \div 16), HexDigit(c % 16)>>

\* one byte as curl_easy_escape writes it: itself, or % and two hex digits
EscapeByte(c) ==
    IF IsUnreserved(c) THEN <<c>> ELSE <<37, HexDigit(c \div 16), HexDigit(c % 16)>>

\* the bytes of s escaped one after the other (the sequence is halved rather
\* than walked so that the evaluation stays shallow)
RECURSIVE EscapeBytes(_)
EscapeBytes(s) ==
    IF s = <<>> THEN <<>>
    ELSE IF Len(s) = 1 THEN EscapeByte(s[1])
    ELSE LET h == Len(s) \div 2 IN
         EscapeBytes(SubSeq(s, 1, h)) \o EscapeBytes(SubSeq(s, h + 1, Len(s)))

\* curl_easy_escape(curl, string, inlength): no result for a negative length;
\* a length of 0 means strlen(string); the result is zero-terminated
curl_easy_escape(string, inlength) ==
    IF inlength < 0 THEN [null |-> TRUE, mem |-> <<>>]
    ELSE LET length == IF inlength # 0 THEN inlength ELSE StrLen(string) IN
         [null |-> FALSE, mem |-> c_str(EscapeBytes(SubSeq(string, 1, length)))]

\* UrlEncode: the escaped value, or the value itself when curl_easy_escape
\* returns no result
UrlEncode(value) ==
    LET encoded == curl_easy_escape(c_str(value), Len(value)) IN
    IF ~encoded.null THEN CStr(encoded.mem) ELSE value

\* the range-for over the map: CFResp skipped, "&" before every pair but the first
RECURSIVE UrlLoop(_, _, _, _)
UrlLoop(m, i, acc, firstParam) ==
    IF i > Len(m) THEN acc
    ELSE IF m[i].key = CFResp THEN UrlLoop(m, i + 1, acc, firstParam)
    ELSE UrlLoop(m, i + 1,
                 (IF firstParam THEN acc ELSE acc \o <<38>>)
                     \o m[i].key \o <<61>> \o UrlEncode(m[i].value),
                 FALSE)

\* a loop that puts "&" before every entry but the map's first one, skipped or not
RECURSIVE UrlLoop_AmpByPosition(_, _, _)
UrlLoop_AmpByPosition(m, i, acc) ==
    IF i > Len(m) THEN acc
    ELSE IF m[i].key = CFResp THEN UrlLoop_AmpByPosition(m, i + 1, acc)
    ELSE UrlLoop_AmpByPosition(m, i + 1,
             (IF i = 1 THEN acc ELSE acc \o <<38>>) \o m[i].key \o <<61>> \o UrlEncode(m[i].value))

BuildUrl_AmpByPosition(baseUrl, m) == UrlLoop_AmpByPosition(m, 1, baseUrl \o <<63>>)

\* std::string url = config.baseUrl + "?"; then the loop
BuildUrl(baseUrl, m) == UrlLoop(m, 1, baseUrl \o <<63>>, TRUE)

\* ------------------------------------------------------------ inputs

\* key fields (32 bytes) and value fields (128 bytes) of the enumerated buffers
KeyA == Pad(<<65>>, KEY_SIZE)
Keya == Pad(<<97>>, KEY_SIZE)
\* "a", a zero byte, then bytes that are not part of the key
KeyaJunk == Pad(<<97, 0, 122, 122>>, KEY_SIZE)
KeyCFResp == Pad(CFResp, KEY_SIZE)
\* 32 bytes, none of them zero
KeyFull == Fill(107, KEY_SIZE)
\* "a&CFResp"
KeyAmp == Pad(<<97, 38>> \o CFResp, KEY_SIZE)

ValYes == Pad(Yes, VALUE_SIZE)
\* "Yes"
ValYesCap == Pad(<<89, 101, 115>>, VALUE_SIZE)
\* "a b&c"
ValSpaceAmp == Pad(<<97, 32, 98, 38, 99>>, VALUE_SIZE)
\* 128 bytes, none of them zero, no two the same
ValFull == [i \in 1..VALUE_SIZE |-> 1 + ((i * 7) % 255)]
\* "x-_.~", a zero byte, then bytes that are not part of the value
ValJunk == Pad(<<120, 45, 95, 46, 126, 0, 122, 122>>, VALUE_SIZE)
\* "1"
ValOne == Pad(<<49>>, VALUE_SIZE)

\* "false" and "0"
ValFalse == Pad(<<102, 97, 108, 115, 101>>, VALUE_SIZE)
ValZero == Pad(<<48>>, VALUE_SIZE)

RecordPool ==
    { KeyCFResp \o ValYes, KeyCFResp \o ValYesCap, KeyA \o ValSpaceAmp, Keya \o ValFull,
      KeyFull \o ValJunk, KeyaJunk \o ValOne, KeyAmp \o ValOne }

\* the 2-byte header the host writes for n records
Digits2(n) == <<48 + (n \div 10), 48 + (n % 10)>>

RECURSIVE Flatten(_)
Flatten(recs) == IF recs = <<>> THEN <<>> ELSE Head(recs) \o Flatten(Tail(recs))

RecordSeqs == UNION {[1..n -> RecordPool] : n \in 0..MaxRecords}

\* buffers whose header states the number of records they hold
WellFormedBuffers == {Digits2(Len(recs)) \o Flatten(recs) : recs \in RecordSeqs}

\* further buffers: CFResp between two other keys, CFResp three times, and
\* headers that are not two digits ("-1", "AB", " 1", "+1", "1x", "-0")
SpecialBuffers ==
    { Digits2(3) \o Keya \o ValOne \o KeyCFResp \o ValYes \o KeyA \o ValJunk,
      Digits2(3) \o KeyCFResp \o ValOne \o KeyCFResp \o ValYes \o KeyCFResp \o ValYesCap,
      <<45, 49>>,
      <<65, 66>> \o KeyCFResp \o ValYes,
      <<32, 49>> \o KeyCFResp \o ValYes,
      <<43, 49>> \o Keya \o ValOne,
      <<49, 120>> \o Keya \o ValOne,
      <<45, 48>> \o Keya \o ValOne }

\* the buffers of a test that gives CFResp the values "yes", "false", "0" and
\* "1": alone, after another parameter and before it
ControlValueBuffers ==
    UNION { { Digits2(1) \o KeyCFResp \o v,
              Digits2(2) \o KeyA \o ValSpaceAmp \o KeyCFResp \o v,
              Digits2(2) \o KeyCFResp \o v \o Keya \o ValOne } : v \in {ValYes, ValFalse, ValZero, ValOne} }

NullPtr == [null |-> TRUE, mem |-> <<>>]
Ptr(mem) == [null |-> FALSE, mem |-> mem]

\* buffers that end before the records their header counts: a header alone, a
\* header and a key, a record that lacks its last byte, one record of two
ShortBuffers ==
    { Digits2(1),
      Digits2(1) \o Keya,
      Digits2(1) \o SubSeq(Keya \o ValOne, 1, PAIR_SIZE - 1),
      Digits2(2) \o Keya \o ValOne }
ShortDataIns == {Ptr(b) : b \in ShortBuffers}

\* what lies after the buffer in the memory of the process: zero bytes, bytes
\* of another value, what an earlier buffer left there, or no mapped page
Beyonds ==
    {[mapped |-> TRUE, mem |-> m] :
        m \in {Fill(0, 2 * PAIR_SIZE), Fill(170, 2 * PAIR_SIZE),
                KeyCFResp \o ValYes \o KeyA \o ValOne}}
    \cup {[mapped |-> FALSE, mem |-> <<>>]}

DataIns == {NullPtr} \cup {Ptr(b) : b \in WellFormedBuffers \cup SpecialBuffers}

\* the caller's outbound buffer: none, or 162 + OutSlack bytes of one value
OUT_SIZE == HEADER_SIZE + KEY_SIZE + VALUE_SIZE
DataOuts == {NullPtr, Ptr(Fill(0, OUT_SIZE + OutSlack)), Ptr(Fill(170, OUT_SIZE + OutSlack))}

\* ConfigSettings as ReadConfig returns it: the defaults, or config.ini's values
DefaultBaseUrl ==
    << 104, 116, 116, 112, 115, 58, 47, 47, 108, 111, 99, 97, 108, 104, 111, 115, 116,
       47, 97, 112, 105, 47, 105, 110, 100, 101, 120, 46, 112, 104, 112 >>
Configs ==
    { [baseUrl |-> DefaultBaseUrl, timeout |-> 4, connectTimeout |-> 2, verifySSL |-> TRUE],
      [baseUrl |-> <<104, 116, 116, 112, 58, 47, 47, 104, 47, 112>>,
       timeout |-> 10, connectTimeout |-> 5, verifySSL |-> FALSE] }

\* response bodies: "Success!", 127, 128 and 130 bytes without a zero byte,
\* and "ab", a zero byte, "cd"
BodySuccess == <<83, 117, 99, 99, 101, 115, 115, 33>>
BodyOf(n) == [i \in 1..n |-> 65 + (i % 26)]
BodyNul == <<97, 98, 0, 99, 100>>
Bodies == {<<>>, BodySuccess, BodyOf(VALUE_SIZE - 1), BodyOf(VALUE_SIZE), BodyOf(VALUE_SIZE + 2), BodyNul}

\* what curl_easy_perform can come back with: a CURLcode that is not CURLE_OK,
\* or CURLE_OK with the final status and the body the callback was given
TransportResults ==
    {[res |-> c, httpCode |-> 0, body |-> <<>>] : c \in {7, 28}}
    \cup {[res |-> CURLE_OK, httpCode |-> 200, body |-> b] : b \in Bodies}
    \cup {[res |-> CURLE_OK, httpCode |-> c, body |-> BodySuccess] : c \in {199, 299, 300, 404, 500}}

\* curl_easy_strerror
curl_easy_strerror(code) ==
    IF code = 7 THEN "Couldn't connect to server"
    ELSE IF code = 28 THEN "Timeout was reached"
    ELSE "Unknown error"

\* ------------------------------------------------------------ state

VARIABLES
    pc,                    \* where the call is: idle, decoded, built, responded, returned
                           \* (crashed: the process stopped inside the call)
    dataIn, dataOut,       \* the two arguments as passed
    readOffsets,           \* the offsets of dataIn the call has read
    outBuffer,             \* the bytes dataOut points at, as they are now
    numParameters,         \* the parsed count
    parameters,            \* the std::map
    shouldReturnResponse,
    curl,                  \* the easy handle: "none", "live" or "cleaned"
    config,                \* what ReadConfig returned
    url,
    performs,              \* how many times curl_easy_perform has run in this call
    res, httpCode, responseData,
    result,                \* the value returned (-1 while no call has returned)
    g_lastErrorMessage,    \* the thread's last error: format and arguments
    caught,                \* the exception a catch clause of the call has caught
    calls,                 \* how many calls have returned to the host on this thread
    lastFailure,           \* what the host read from GetLastErrorMessage after the
                           \* most recent of them that failed
    thread,                \* the thread that is running
    suspended,             \* the stack and thread-local data of the threads that are not
    dllPc,                 \* where this thread is in DllMain: out, enter, locked, unlock
    ul_reason_for_call,
    curlInitMutex,         \* the thread that holds the mutex, 0 if none
    curlGlobalInitialized,
    globalInits,           \* the calls of curl_global_init so far, less those of
                           \* curl_global_cleanup
    notified               \* the notifications the loader has sent so far: how many
                           \* process attaches, how many process detaches, and the
                           \* reason of the one that took the mutex last (-1: none yet)

\* what belongs to one call
callVars == << pc, dataIn, dataOut, readOffsets, outBuffer, numParameters, parameters,
               shouldReturnResponse, curl, config, url, performs, res, httpCode, responseData,
               result, caught >>
\* what the host, the other threads and the loader add to it
hostVars == << calls, lastFailure, thread, suspended, dllPc, ul_reason_for_call, curlInitMutex,
               curlGlobalInitialized, globalInits, notified >>

vars == << pc, dataIn, dataOut, readOffsets, outBuffer, numParameters, parameters, shouldReturnResponse, curl,
           config, url, performs, res, httpCode, responseData, result, g_lastErrorMessage,
           caught, hostVars >>

NoMessage == [fmt |-> "", num |-> 0, str |-> ""]
NoException == [thrown |-> FALSE, std |-> FALSE, what |-> ""]
\* what the code between try and catch can throw: a std::exception (e.what()
\* is "bad allocation" for std::bad_alloc), or something that is not one
Exceptions ==
    { [thrown |-> TRUE, std |-> TRUE, what |-> "bad allocation"],
      [thrown |-> TRUE, std |-> FALSE, what |-> ""] }

\* the threads of the host
Threads == {1, 2}
DLL_PROCESS_ATTACH == 1
DLL_PROCESS_DETACH == 0
\* SetLastErrorMessage(format, ...): the message vsnprintf writes
SetLastErrorMessage(fmt, num, str) == [fmt |-> fmt, num |-> num, str |-> str]

\* a thread that has not called anything yet: no call in progress, its
\* g_lastErrorMessage zero-initialised
StartContext ==
    [ pc |-> "idle", dataIn |-> NullPtr, dataOut |-> NullPtr, readOffsets |-> {}, outBuffer |-> <<>>,
      numParameters |-> ToUnsigned(0), parameters |-> <<>>, shouldReturnResponse |-> FALSE,
      curl |-> "none",
      config |-> [baseUrl |-> <<>>, timeout |-> 0, connectTimeout |-> 0, verifySSL |-> FALSE],
      url |-> <<>>, performs |-> 0, res |-> CURLE_OK, httpCode |-> 0, responseData |-> <<>>,
      result |-> -1, g_lastErrorMessage |-> NoMessage, caught |-> NoException,
      calls |-> 0, lastFailure |-> NoMessage,
      dllPc |-> "out", ul_reason_for_call |-> DLL_PROCESS_ATTACH ]

Init ==
    /\ pc = "idle"
    /\ dataIn = NullPtr
    /\ dataOut = NullPtr
    /\ readOffsets = {}
    /\ outBuffer = <<>>
    /\ numParameters = ToUnsigned(0)
    /\ parameters = <<>>
    /\ shouldReturnResponse = FALSE
    /\ curl = "none"
    /\ config = [baseUrl |-> <<>>, timeout |-> 0, connectTimeout |-> 0, verifySSL |-> FALSE]
    /\ url = <<>>
    /\ performs = 0
    /\ res = CURLE_OK
    /\ httpCode = 0
    /\ responseData = <<>>
    /\ result = -1
    /\ g_lastErrorMessage = NoMessage
    /\ caught = NoException
    /\ calls = 0
    /\ lastFailure = NoMessage
    /\ thread = 1
    /\ suspended = [t \in Threads |-> StartContext]
    /\ dllPc = "out"
    /\ ul_reason_for_call = DLL_PROCESS_ATTACH
    /\ curlInitMutex = 0
    /\ curlGlobalInitialized = FALSE
    /\ globalInits = 0
    /\ notified = [attach |-> 0, detach |-> 0, last |-> -1]

\* ------------------------------------------------------------ the call

\* size_t WriteCallback(contents, size, nmemb, userp): userp->append(contents)
WriteCallback(userp, contents) == userp \o contents

\* the value copied one byte further into the buffer
WriteResponse_ValueShifted(out, body) ==
    LET hdr == [out EXCEPT ![1] = 48, ![2] = 49]
        outputKey == strncpy(Fill(0, KEY_SIZE), c_str(CFResp), KEY_SIZE - 1)
        outputValue == strncpy(Fill(0, VALUE_SIZE), c_str(body), VALUE_SIZE - 1)
    IN memcpy(memcpy(hdr, HEADER_SIZE, outputKey, KEY_SIZE),
              HEADER_SIZE + KEY_SIZE + 1, outputValue, VALUE_SIZE)

\* strncpy given the whole of the value field, so that a long body leaves no
\* zero byte at its end
WriteResponse_NoTerminator(out, body) ==
    LET hdr == [out EXCEPT ![1] = 48, ![2] = 49]
        outputKey == strncpy(Fill(0, KEY_SIZE), c_str(CFResp), KEY_SIZE - 1)
        outputValue == strncpy(Fill(0, VALUE_SIZE), c_str(body), VALUE_SIZE)
    IN memcpy(memcpy(hdr, HEADER_SIZE, outputKey, KEY_SIZE),
              HEADER_SIZE + KEY_SIZE, outputValue, VALUE_SIZE)

\* the count written as the bytes 0 and 1, not as the characters '0' and '1'
WriteResponse_BinaryCount(out, body) ==
    LET hdr == [out EXCEPT ![1] = 0, ![2] = 1]
        outputKey == strncpy(Fill(0, KEY_SIZE), c_str(CFResp), KEY_SIZE - 1)
        outputValue == strncpy(Fill(0, VALUE_SIZE), c_str(body), VALUE_SIZE - 1)
    IN memcpy(memcpy(hdr, HEADER_SIZE, outputKey, KEY_SIZE),
              HEADER_SIZE + KEY_SIZE, outputValue, VALUE_SIZE)

\* the bytes of the outbound buffer after the block that writes the response
WriteResponse(out, body) ==
    LET hdr == [out EXCEPT ![1] = 48, ![2] = 49]
        outputKey == strncpy(Fill(0, KEY_SIZE), c_str(CFResp), KEY_SIZE - 1)
        outputValue == strncpy(Fill(0, VALUE_SIZE), c_str(body), VALUE_SIZE - 1)
    IN memcpy(memcpy(hdr, HEADER_SIZE, outputKey, KEY_SIZE),
              HEADER_SIZE + KEY_SIZE, outputValue, VALUE_SIZE)

\* a limit of 1 in place of 100
TooManyParameters_LimitOne(n) == UGreater(n, 1)

\* if (numParameters > 100)
TooManyParameters(n) == UGreater(n, MAX_PARAMETERS)

\* a status check that lets 300 through
IsHttpError_Through300(code) == code < 200 \/ code > 300

\* a status check that takes every status from 100 on for a success
IsHttpError_From100(code) == code < 100 \/ code >= 300

\* if (httpCode < 200 || httpCode >= 300)
IsHttpError(code) == code < 200 \/ code >= 300

\* a call that empties the thread's message when it starts
DecodeCall_ResetsMessage(in, out, img) ==
    /\ pc = "idle"
    /\ dataIn' = in
    /\ dataOut' = out
    /\ outBuffer' = out.mem
    /\ UNCHANGED << curl, config, url, performs, res, httpCode, responseData, caught, hostVars >>
    /\ IF in.null
       THEN /\ g_lastErrorMessage' = SetLastErrorMessage("Invalid input: dataIn is null", 0, "")
            /\ result' = FAIL
            /\ pc' = "returned"
            /\ UNCHANGED << readOffsets, numParameters, parameters, shouldReturnResponse >>
       ELSE LET n == ParseCount(img) IN
            /\ numParameters' = n
            /\ IF TooManyParameters(n)
               THEN /\ g_lastErrorMessage' =
                          SetLastErrorMessage("Too many parameters: %d (maximum is 100)", AsInt(n), "")
                    /\ result' = FAIL
                    /\ pc' = "returned"
                    /\ readOffsets' = HeaderReads
                    /\ UNCHANGED << parameters, shouldReturnResponse >>
               ELSE /\ readOffsets' = HeaderReads \cup LoopReads(UValue(n))
                    /\ parameters' = Decode(img, UValue(n)).parameters
                    /\ shouldReturnResponse' = Decode(img, UValue(n)).shouldReturnResponse
                    /\ pc' = "decoded"
                    /\ g_lastErrorMessage' = NoMessage
                    /\ UNCHANGED result

\* the null check, the count and its limit, and the loop that fills the map;
\* img is the memory the reads through dataIn find
DecodeCall(in, out, img) ==
    /\ pc = "idle"
    /\ dataIn' = in
    /\ dataOut' = out
    /\ outBuffer' = out.mem
    /\ UNCHANGED << curl, config, url, performs, res, httpCode, responseData, caught, hostVars >>
    /\ IF in.null
       THEN /\ g_lastErrorMessage' = SetLastErrorMessage("Invalid input: dataIn is null", 0, "")
            /\ result' = FAIL
            /\ pc' = "returned"
            /\ UNCHANGED << readOffsets, numParameters, parameters, shouldReturnResponse >>
       ELSE LET n == ParseCount(img) IN
            /\ numParameters' = n
            /\ IF TooManyParameters(n)
               THEN /\ g_lastErrorMessage' =
                          SetLastErrorMessage("Too many parameters: %d (maximum is 100)", AsInt(n), "")
                    /\ result' = FAIL
                    /\ pc' = "returned"
                    /\ readOffsets' = HeaderReads
                    /\ UNCHANGED << parameters, shouldReturnResponse >>
               ELSE /\ readOffsets' = HeaderReads \cup LoopReads(UValue(n))
                    /\ parameters' = Decode(img, UValue(n)).parameters
                    /\ shouldReturnResponse' = Decode(img, UValue(n)).shouldReturnResponse
                    /\ pc' = "decoded"
                    /\ UNCHANGED << result, g_lastErrorMessage >>

\* the host calls CustomFunctionExample(dataIn, dataOut) with a buffer that
\* holds the records its header counts
DecodeStep(in, out) == DecodeCall(in, out, in.mem)

\* the host calls CustomFunctionExample(dataIn, dataOut) with a buffer that
\* ends before the last record its header counts.  The function is not told
\* the length, so the memcpy read on past the end of the buffer: they find
\* whatever the process has there, or an address that is not mapped, in which
\* case the process stops inside the call
DecodeShortStep(in, out, beyond) ==
    LET need == HEADER_SIZE + UValue(ParseCount(in.mem)) * PAIR_SIZE IN
    IF beyond.mapped
    THEN DecodeCall(in, out, SubSeq(in.mem \o beyond.mem, 1, need))
    ELSE /\ pc = "idle"
         /\ dataIn' = in
         /\ dataOut' = out
         /\ outBuffer' = out.mem
         /\ numParameters' = ParseCount(in.mem)
         /\ readOffsets' = 0..Len(in.mem)
         /\ pc' = "crashed"
         /\ UNCHANGED << parameters, shouldReturnResponse, curl, config, url, performs, res,
                         httpCode, responseData, result, g_lastErrorMessage, caught, hostVars >>

\* a failure of curl_easy_init that returns FAIL and leaves the message alone
BuildUrlStep_SilentInitFailure(handle, cfg) ==
    /\ pc = "decoded"
    /\ UNCHANGED << dataIn, dataOut, readOffsets, outBuffer, numParameters, parameters,
                    shouldReturnResponse, performs, res, httpCode, responseData, caught, hostVars >>
    /\ IF ~handle
       THEN /\ result' = FAIL
            /\ pc' = "returned"
            /\ UNCHANGED << curl, config, url, g_lastErrorMessage >>
       ELSE /\ curl' = "live"
            /\ config' = cfg
            /\ url' = BuildUrl(cfg.baseUrl, parameters)
            /\ pc' = "built"
            /\ UNCHANGED << result, g_lastErrorMessage >>

\* curl_easy_init (which may return no handle), ReadConfig, and the URL
BuildUrlStep(handle, cfg) ==
    /\ pc = "decoded"
    /\ UNCHANGED << dataIn, dataOut, readOffsets, outBuffer, numParameters, parameters,
                    shouldReturnResponse, performs, res, httpCode, responseData, caught, hostVars >>
    /\ IF ~handle
       THEN /\ g_lastErrorMessage' = SetLastErrorMessage("Failed to initialize curl", 0, "")
            /\ result' = FAIL
            /\ pc' = "returned"
            /\ UNCHANGED << curl, config, url >>
       ELSE /\ curl' = "live"
            /\ config' = cfg
            /\ url' = BuildUrl(cfg.baseUrl, parameters)
            /\ pc' = "built"
            /\ UNCHANGED << result, g_lastErrorMessage >>

\* a transfer that is tried once more when it fails for the first time
PerformStep_RetryOnce(t) ==
    IF t.res # CURLE_OK /\ performs = 0
    THEN /\ pc = "built"
         /\ performs' = performs + 1
         /\ res' = t.res
         /\ responseData' = WriteCallback(<<>>, t.body)
         /\ UNCHANGED << pc, dataIn, dataOut, readOffsets, outBuffer, numParameters, parameters,
                         shouldReturnResponse, curl, config, url, httpCode, result,
                         g_lastErrorMessage, caught, hostVars >>
    ELSE
        /\ pc = "built"
        /\ UNCHANGED << dataIn, dataOut, readOffsets, outBuffer, numParameters, parameters,
                        shouldReturnResponse, config, url, caught, hostVars >>
        /\ performs' = performs + 1
        /\ res' = t.res
        /\ responseData' = WriteCallback(<<>>, t.body)
        /\ IF t.res # CURLE_OK
           THEN /\ g_lastErrorMessage' =
                      SetLastErrorMessage("Curl request failed: %s", 0, curl_easy_strerror(t.res))
                /\ result' = FAIL
                /\ curl' = "cleaned"
                /\ pc' = "returned"
                /\ UNCHANGED httpCode
           ELSE /\ httpCode' = t.httpCode
                /\ IF IsHttpError(t.httpCode)
                   THEN /\ g_lastErrorMessage' =
                              SetLastErrorMessage("HTTP error: received status code %ld", t.httpCode, "")
                        /\ result' = FAIL
                        /\ curl' = "cleaned"
                        /\ pc' = "returned"
                   ELSE /\ pc' = "responded"
                        /\ UNCHANGED << result, curl, g_lastErrorMessage >>

\* a response block that comes before the check of the status
PerformStep_WritesBeforeStatusCheck(t) ==
    /\ pc = "built"
    /\ UNCHANGED << dataIn, dataOut, readOffsets, numParameters, parameters,
                    shouldReturnResponse, config, url, caught, hostVars >>
    /\ performs' = performs + 1
    /\ res' = t.res
    /\ responseData' = WriteCallback(<<>>, t.body)
    /\ IF t.res # CURLE_OK
       THEN /\ g_lastErrorMessage' =
                  SetLastErrorMessage("Curl request failed: %s", 0, curl_easy_strerror(t.res))
            /\ result' = FAIL
            /\ curl' = "cleaned"
            /\ pc' = "returned"
            /\ UNCHANGED << httpCode, outBuffer >>
       ELSE /\ httpCode' = t.httpCode
            /\ outBuffer' = IF shouldReturnResponse /\ ~dataOut.null
                            THEN WriteResponse(outBuffer, t.body)
                            ELSE outBuffer
            /\ IF IsHttpError(t.httpCode)
               THEN /\ g_lastErrorMessage' =
                          SetLastErrorMessage("HTTP error: received status code %ld", t.httpCode, "")
                    /\ result' = FAIL
                    /\ curl' = "cleaned"
                    /\ pc' = "returned"
               ELSE /\ pc' = "responded"
                    /\ UNCHANGED << result, curl, g_lastErrorMessage >>

\* curl_easy_perform, the check of its code and the check of the status; the
\* handle is released by curlGuard on every return
PerformStep(t) ==
    /\ pc = "built"
    /\ UNCHANGED << dataIn, dataOut, readOffsets, outBuffer, numParameters, parameters,
                    shouldReturnResponse, config, url, caught, hostVars >>
    /\ performs' = performs + 1
    /\ res' = t.res
    /\ responseData' = WriteCallback(<<>>, t.body)
    /\ IF t.res # CURLE_OK
       THEN /\ g_lastErrorMessage' =
                  SetLastErrorMessage("Curl request failed: %s", 0, curl_easy_strerror(t.res))
            /\ result' = FAIL
            /\ curl' = "cleaned"
            /\ pc' = "returned"
            /\ UNCHANGED httpCode
       ELSE /\ httpCode' = t.httpCode
            /\ IF IsHttpError(t.httpCode)
               THEN /\ g_lastErrorMessage' =
                          SetLastErrorMessage("HTTP error: received status code %ld", t.httpCode, "")
                    /\ result' = FAIL
                    /\ curl' = "cleaned"
                    /\ pc' = "returned"
               ELSE /\ pc' = "responded"
                    /\ UNCHANGED << result, curl, g_lastErrorMessage >>

\* a success that also clears the message
MapResponseStep_ClearsMessage ==
    /\ pc = "responded"
    /\ UNCHANGED << dataIn, dataOut, readOffsets, numParameters, parameters, shouldReturnResponse,
                    config, url, performs, res, httpCode, responseData, caught, hostVars >>
    /\ outBuffer' = IF shouldReturnResponse /\ ~dataOut.null
                    THEN WriteResponse(outBuffer, responseData)
                    ELSE outBuffer
    /\ g_lastErrorMessage' = NoMessage
    /\ result' = SUCCESS
    /\ curl' = "cleaned"
    /\ pc' = "returned"

\* a return value taken from the thread's message: FAIL when it is not empty
MapResponseStep_ResultFromMessage ==
    /\ pc = "responded"
    /\ UNCHANGED << dataIn, dataOut, readOffsets, numParameters, parameters, shouldReturnResponse,
                    config, url, performs, res, httpCode, responseData, g_lastErrorMessage,
                    caught, hostVars >>
    /\ outBuffer' = IF shouldReturnResponse /\ ~dataOut.null
                    THEN WriteResponse(outBuffer, responseData)
                    ELSE outBuffer
    /\ result' = IF g_lastErrorMessage = NoMessage THEN SUCCESS ELSE FAIL
    /\ curl' = "cleaned"
    /\ pc' = "returned"

\* the response is written if it was asked for and there is a buffer; success
MapResponseStep ==
    /\ pc = "responded"
    /\ UNCHANGED << dataIn, dataOut, readOffsets, numParameters, parameters, shouldReturnResponse,
                    config, url, performs, res, httpCode, responseData, g_lastErrorMessage,
                    caught, hostVars >>
    /\ outBuffer' = IF shouldReturnResponse /\ ~dataOut.null
                    THEN WriteResponse(outBuffer, responseData)
                    ELSE outBuffer
    /\ result' = SUCCESS
    /\ curl' = "cleaned"
    /\ pc' = "returned"

\* catch (const std::exception& e) and catch (...)
CatchMessage(e) ==
    IF e.std THEN SetLastErrorMessage("Unexpected exception: %s", 0, e.what)
    ELSE SetLastErrorMessage("Unknown exception occurred", 0, "")

\* a call in which pass `at` of the parameter loop throws (the strings and the
\* map allocate): the locals are destroyed and a catch clause returns FAIL
DecodeThrowStep(in, out, at, e) ==
    /\ pc = "idle"
    /\ ~in.null
    /\ ~TooManyParameters(ParseCount(in.mem))
    /\ at < UValue(ParseCount(in.mem))
    /\ dataIn' = in
    /\ dataOut' = out
    /\ outBuffer' = out.mem
    /\ numParameters' = ParseCount(in.mem)
    /\ readOffsets' = HeaderReads \cup LoopReads(at + 1)
    /\ caught' = e
    /\ g_lastErrorMessage' = CatchMessage(e)
    /\ result' = FAIL
    /\ pc' = "returned"
    /\ UNCHANGED << parameters, shouldReturnResponse, curl, config, url, performs, res, httpCode,
                    responseData, hostVars >>

\* a handle without a guard: the exception leaves it as it is
BuildThrowStep_Leaks(e) ==
    /\ pc = "decoded"
    /\ curl' = "live"
    /\ caught' = e
    /\ g_lastErrorMessage' = CatchMessage(e)
    /\ result' = FAIL
    /\ pc' = "returned"
    /\ parameters' = <<>>
    /\ shouldReturnResponse' = FALSE
    /\ UNCHANGED << dataIn, dataOut, readOffsets, outBuffer, numParameters, config, url, performs,
                    res, httpCode, responseData, hostVars >>

\* curl_easy_init gave a handle and then ReadConfig, the construction of the
\* URL or responseData.reserve throws: curlGuard releases the handle and a
\* catch clause returns FAIL
BuildThrowStep(e) ==
    /\ pc = "decoded"
    /\ curl' = "cleaned"
    /\ caught' = e
    /\ g_lastErrorMessage' = CatchMessage(e)
    /\ result' = FAIL
    /\ pc' = "returned"
    /\ parameters' = <<>>
    /\ shouldReturnResponse' = FALSE
    /\ UNCHANGED << dataIn, dataOut, readOffsets, outBuffer, numParameters, config, url, performs,
                    res, httpCode, responseData, hostVars >>

\* const char* GetLastErrorMessage() { return g_lastErrorMessage; }
GetLastErrorMessage == g_lastErrorMessage

\* the call returns to the host, which keeps the result and, if it is not 0,
\* reads GetLastErrorMessage(); the locals of the call are gone
ReturnStep ==
    /\ pc = "returned"
    /\ calls < MaxCalls
    /\ calls' = calls + 1
    /\ lastFailure' = IF result # 0 THEN GetLastErrorMessage ELSE lastFailure
    /\ pc' = StartContext.pc
    /\ dataIn' = StartContext.dataIn
    /\ dataOut' = StartContext.dataOut
    /\ readOffsets' = StartContext.readOffsets
    /\ outBuffer' = StartContext.outBuffer
    /\ numParameters' = StartContext.numParameters
    /\ parameters' = StartContext.parameters
    /\ shouldReturnResponse' = StartContext.shouldReturnResponse
    /\ curl' = StartContext.curl
    /\ config' = StartContext.config
    /\ url' = StartContext.url
    /\ performs' = StartContext.performs
    /\ res' = StartContext.res
    /\ httpCode' = StartContext.httpCode
    /\ responseData' = StartContext.responseData
    /\ result' = StartContext.result
    /\ caught' = StartContext.caught
    /\ UNCHANGED << g_lastErrorMessage, thread, suspended, dllPc, ul_reason_for_call,
                    curlInitMutex, curlGlobalInitialized, globalInits, notified >>

Next ==
    \/ \E in \in DataIns, out \in DataOuts : DecodeStep(in, out)
    \/ \E handle \in BOOLEAN, cfg \in Configs : BuildUrlStep(handle, cfg)
    \/ \E t \in TransportResults : PerformStep(t)
    \/ MapResponseStep

Spec == Init /\ [][Next]_vars

\* the call is straight-line code and curl_easy_perform returns (the transfer
\* has a timeout): a step that can be taken is taken
SpecFair == Spec /\ WF_vars(Next)

\* the same call on the short buffers
NextShort ==
    \/ \E in \in ShortDataIns, out \in DataOuts, beyond \in Beyonds : DecodeShortStep(in, out, beyond)
    \/ \E handle \in BOOLEAN, cfg \in Configs : BuildUrlStep(handle, cfg)
    \/ \E t \in TransportResults : PerformStep(t)
    \/ MapResponseStep

SpecShort == Init /\ [][NextShort]_vars

\* a host that calls again after each return, on one thread; the exceptions
\* are part of it
CallDataIns ==
    {NullPtr, Ptr(<<45, 49>>), Ptr(Digits2(0)), Ptr(Digits2(1) \o KeyCFResp \o ValYes)}
CallDataOuts == {NullPtr, Ptr(Fill(0, OUT_SIZE))}
CallTransports ==
    {t \in TransportResults : t.res = 7 \/ (t.body = BodySuccess /\ t.httpCode \in {200, 404})}

NextCalls ==
    \/ \E in \in CallDataIns, out \in CallDataOuts : DecodeStep(in, out)
    \/ \E in \in CallDataIns, out \in CallDataOuts, at \in 0..(MaxRecords - 1), e \in Exceptions :
          DecodeThrowStep(in, out, at, e)
    \/ \E handle \in BOOLEAN, cfg \in Configs : BuildUrlStep(handle, cfg)
    \/ \E e \in Exceptions : BuildThrowStep(e)
    \/ \E t \in CallTransports : PerformStep(t)
    \/ MapResponseStep
    \/ ReturnStep

SpecCalls == Init /\ [][NextCalls]_vars

\* the stack and the thread-local data of the running thread
Context ==
    [ pc |-> pc, dataIn |-> dataIn, dataOut |-> dataOut, readOffsets |-> readOffsets,
      outBuffer |-> outBuffer, numParameters |-> numParameters, parameters |-> parameters,
      shouldReturnResponse |-> shouldReturnResponse, curl |-> curl, config |-> config, url |-> url,
      performs |-> performs, res |-> res, httpCode |-> httpCode, responseData |-> responseData,
      result |-> result, g_lastErrorMessage |-> g_lastErrorMessage, caught |-> caught,
      calls |-> calls, lastFailure |-> lastFailure,
      dllPc |-> dllPc, ul_reason_for_call |-> ul_reason_for_call ]

\* one array for all the threads: a thread finds in it what the thread that
\* ran before it has left
ThreadLocalMessage_Shared(own, left) == left

\* thread_local char g_lastErrorMessage[512]: the array a thread finds when it
\* runs again is its own, not the one the thread before it has written
ThreadLocalMessage(own, left) == own

\* the scheduler takes the processor from the running thread and gives it to
\* thread t, which goes on where it was
SwitchStep(t) ==
    /\ t \in Threads /\ t # thread
    /\ thread' = t
    /\ suspended' = [suspended EXCEPT ![thread] = Context, ![t] = StartContext]
    /\ pc' = suspended[t].pc
    /\ dataIn' = suspended[t].dataIn
    /\ dataOut' = suspended[t].dataOut
    /\ readOffsets' = suspended[t].readOffsets
    /\ outBuffer' = suspended[t].outBuffer
    /\ numParameters' = suspended[t].numParameters
    /\ parameters' = suspended[t].parameters
    /\ shouldReturnResponse' = suspended[t].shouldReturnResponse
    /\ curl' = suspended[t].curl
    /\ config' = suspended[t].config
    /\ url' = suspended[t].url
    /\ performs' = suspended[t].performs
    /\ res' = suspended[t].res
    /\ httpCode' = suspended[t].httpCode
    /\ responseData' = suspended[t].responseData
    /\ result' = suspended[t].result
    /\ g_lastErrorMessage' = ThreadLocalMessage(suspended[t].g_lastErrorMessage, g_lastErrorMessage)
    /\ caught' = suspended[t].caught
    /\ calls' = suspended[t].calls
    /\ lastFailure' = suspended[t].lastFailure
    /\ dllPc' = suspended[t].dllPc
    /\ ul_reason_for_call' = suspended[t].ul_reason_for_call
    /\ UNCHANGED << curlInitMutex, curlGlobalInitialized, globalInits, notified >>

\* calls on the threads of the host, interleaved
ThreadDataIns == {NullPtr, Ptr(Digits2(0))}
ThreadTransports == {t \in TransportResults : t.res = 7 \/ (t.body = BodySuccess /\ t.httpCode = 200)}

NextThreads ==
    \/ \E in \in ThreadDataIns : DecodeStep(in, NullPtr)
    \/ \E handle \in BOOLEAN : BuildUrlStep(handle, CHOOSE cfg \in Configs : cfg.baseUrl = DefaultBaseUrl)
    \/ \E t \in ThreadTransports : PerformStep(t)
    \/ MapResponseStep
    \/ ReturnStep
    \/ \E t \in Threads : SwitchStep(t)

SpecThreads == Init /\ [][NextThreads]_vars

\* the calls of a test that varies the value of CFResp
NextControl ==
    \/ \E b \in ControlValueBuffers, out \in DataOuts : DecodeStep(Ptr(b), out)
    \/ \E handle \in BOOLEAN, cfg \in Configs : BuildUrlStep(handle, cfg)
    \/ \E t \in TransportResults : PerformStep(t)
    \/ MapResponseStep

SpecControl == Init /\ [][NextControl]_vars

\* a host that calls again after each return on each of its threads; the
\* calls of the threads interleave, and some of them fail or throw
HistoryDataIns == {NullPtr, Ptr(Digits2(1) \o KeyCFResp \o ValYes), Ptr(Digits2(1) \o KeyA \o ValSpaceAmp)}
HistoryTransports == {t \in TransportResults : t.res = 7 \/ (t.body = BodySuccess /\ t.httpCode = 200)}

NextHistory ==
    \/ \E in \in HistoryDataIns : DecodeStep(in, Ptr(Fill(0, OUT_SIZE)))
    \/ \E handle \in BOOLEAN : BuildUrlStep(handle, CHOOSE cfg \in Configs : cfg.baseUrl = DefaultBaseUrl)
    \/ \E e \in Exceptions : BuildThrowStep(e)
    \/ \E t \in HistoryTransports : PerformStep(t)
    \/ MapResponseStep
    \/ ReturnStep
    \/ \E t \in Threads : SwitchStep(t)

SpecHistory == Init /\ [][NextHistory]_vars

\* calls on buffers with all kinds of headers: the second byte is one of the
\* ten digits, the zero byte, a tab, a space, '+', '-', '/' and ':' (next to
\* the digits), 'A', 'x' and 0xFF, the first byte one of these without the
\* digits from 2 on; the buffer holds as many records (of zero bytes) as the
\* call will read
HeaderBytes == (48..57) \cup {0, 9, 32, 43, 45, 47, 58, 65, 120, 255}
RecordsRead(hdr) == IF UGreater(ParseCount(hdr), MAX_PARAMETERS) THEN 0 ELSE UValue(ParseCount(hdr))
HeaderDataIns ==
    {Ptr(<<a, b>> \o Fill(0, RecordsRead(<<a, b>>) * PAIR_SIZE)) : a \in HeaderBytes \ (50..57), b \in HeaderBytes}

NextHeaders == \E in \in HeaderDataIns : DecodeStep(in, NullPtr)

SpecHeaders == Init /\ [][NextHeaders]_vars

\* ---- the variant with the compile-time configuration (custom_static.cpp)
\*
\* Its CustomFunctionExample has the locals of the other one but no `config`
\* (the constant CONFIG takes its place) and no g_lastErrorMessage; its steps
\* say nothing about these two variables, nor about `caught`.

\* constexpr ConfigSettings CONFIG
Static_CONFIG == [baseUrl |-> DefaultBaseUrl, timeout |-> 4, connectTimeout |-> 2]

\* if (numParameters > 100)
Static_TooManyParameters(n) == UGreater(n, 100)

\* if (httpCode < 200 || httpCode >= 300)
Static_IsHttpError(code) == code < 200 \/ code >= 300

\* a response written whenever there is a buffer for it
Static_ShouldWrite_Always(flag, out) == ~out.null

\* if (shouldReturnResponse && dataOut)
Static_ShouldWrite(flag, out) == flag /\ ~out.null

\* the null check, the count and its limit, and the loop that fills the map
Static_DecodeStep(in, out) ==
    /\ pc = "idle"
    /\ dataIn' = in
    /\ dataOut' = out
    /\ outBuffer' = out.mem
    /\ UNCHANGED << curl, url, performs, res, httpCode, responseData, hostVars >>
    /\ IF in.null
       THEN /\ result' = 1
            /\ pc' = "returned"
            /\ UNCHANGED << readOffsets, numParameters, parameters, shouldReturnResponse >>
       ELSE LET n == ParseCount(in.mem) IN
            /\ numParameters' = n
            /\ IF Static_TooManyParameters(n)
               THEN /\ result' = 1
                    /\ pc' = "returned"
                    /\ readOffsets' = HeaderReads
                    /\ UNCHANGED << parameters, shouldReturnResponse >>
               ELSE /\ readOffsets' = HeaderReads \cup LoopReads(UValue(n))
                    /\ parameters' = Decode(in.mem, UValue(n)).parameters
                    /\ shouldReturnResponse' = Decode(in.mem, UValue(n)).shouldReturnResponse
                    /\ pc' = "decoded"
                    /\ UNCHANGED result

\* curl_easy_init (which may return no handle) and the URL from CONFIG.baseUrl
Static_BuildUrlStep(handle) ==
    /\ pc = "decoded"
    /\ UNCHANGED << dataIn, dataOut, readOffsets, outBuffer, numParameters, parameters,
                    shouldReturnResponse, performs, res, httpCode, responseData, hostVars >>
    /\ IF ~handle
       THEN /\ result' = 1
            /\ pc' = "returned"
            /\ UNCHANGED << curl, url >>
       ELSE /\ curl' = "live"
            /\ url' = BuildUrl(Static_CONFIG.baseUrl, parameters)
            /\ pc' = "built"
            /\ UNCHANGED result

\* curl_easy_perform, the check of its code and the check of the status; the
\* handle is released by curlGuard on every return
Static_PerformStep(t) ==
    /\ pc = "built"
    /\ UNCHANGED << dataIn, dataOut, readOffsets, outBuffer, numParameters, parameters,
                    shouldReturnResponse, url, hostVars >>
    /\ performs' = performs + 1
    /\ res' = t.res
    /\ responseData' = WriteCallback(<<>>, t.body)
    /\ IF t.res # CURLE_OK
       THEN /\ result' = 1
            /\ curl' = "cleaned"
            /\ pc' = "returned"
            /\ UNCHANGED httpCode
       ELSE /\ httpCode' = t.httpCode
            /\ IF Static_IsHttpError(t.httpCode)
               THEN /\ result' = 1
                    /\ curl' = "cleaned"
                    /\ pc' = "returned"
               ELSE /\ pc' = "responded"
                    /\ UNCHANGED << result, curl >>

\* the response is written if it was asked for and there is a buffer; return 0
Static_MapResponseStep ==
    /\ pc = "responded"
    /\ UNCHANGED << dataIn, dataOut, readOffsets, numParameters, parameters, shouldReturnResponse,
                    url, performs, res, httpCode, responseData, hostVars >>
    /\ outBuffer' = IF Static_ShouldWrite(shouldReturnResponse, dataOut)
                    THEN WriteResponse(outBuffer, responseData)
                    ELSE outBuffer
    /\ result' = 0
    /\ curl' = "cleaned"
    /\ pc' = "returned"

\* what this variant does not have
Static_Frame == UNCHANGED << g_lastErrorMessage, config, caught >>

NextStatic ==
    \/ \E in \in DataIns, out \in DataOuts : Static_DecodeStep(in, out) /\ Static_Frame
    \/ \E handle \in BOOLEAN : Static_BuildUrlStep(handle) /\ Static_Frame
    \/ \E t \in TransportResults : Static_PerformStep(t) /\ Static_Frame
    \/ Static_MapResponseStep /\ Static_Frame

SpecStatic == Init /\ [][NextStatic]_vars

\* ---- the demonstration server (server.cpp) and its test (test_client.cpp)

\* std::string::find(c, from): the first place of c at or after `from`
\* (counted from 1), 0 for npos
Find(s, c, from) ==
    LET ps == {p \in from..Len(s) : s[p] = c} IN
    IF ps = {} THEN 0 ELSE CHOOSE p \in ps : \A q \in ps : p <= q

\* what `iss >> std::hex >> value` reads from two characters: both if both are
\* hexadecimal digits, the first if it alone is one, -1 for a failed read
HexDigitValue(c) ==
    IF c >= 48 /\ c <= 57 THEN c - 48
    ELSE IF c >= 65 /\ c <= 70 THEN c - 55
    ELSE IF c >= 97 /\ c <= 102 THEN c - 87
    ELSE -1
ReadHex(a, c) ==
    IF HexDigitValue(a) < 0 THEN -1
    ELSE IF HexDigitValue(c) < 0 THEN HexDigitValue(a)
    ELSE 16 * HexDigitValue(a) + HexDigitValue(c)

\* SimpleHttpServer::urlDecode, from place p on
RECURSIVE urlDecodeFrom(_, _)
urlDecodeFrom(encoded, p) ==
    IF p > Len(encoded) THEN <<>>
    ELSE IF encoded[p] = 37 /\ p + 2 <= Len(encoded)
    THEN IF ReadHex(encoded[p + 1], encoded[p + 2]) >= 0
         THEN <<ReadHex(encoded[p + 1], encoded[p + 2])>> \o urlDecodeFrom(encoded, p + 3)
         ELSE <<37>> \o urlDecodeFrom(encoded, p + 1)
    ELSE IF encoded[p] = 43 THEN <<32>> \o urlDecodeFrom(encoded, p + 1)
    ELSE <<encoded[p]>> \o urlDecodeFrom(encoded, p + 1)
urlDecode(encoded) == urlDecodeFrom(encoded, 1)

\* SimpleHttpServer::parseQueryString, from place `start` on
RECURSIVE parseQueryFrom(_, _, _)
parseQueryFrom(query, start, params) ==
    IF start > Len(query) THEN params
    ELSE LET end == Find(query, 38, start)
             param == IF end # 0 THEN SubSeq(query, start, end - 1) ELSE SubSeq(query, start, Len(query))
             equalPos == Find(param, 61, 1)
         IN parseQueryFrom(query, IF end # 0 THEN end + 1 ELSE Len(query) + 1,
                IF equalPos # 0
                THEN MapAssign(params, SubSeq(param, 1, equalPos - 1),
                               urlDecode(SubSeq(param, equalPos + 1, Len(param))))
                ELSE params)
parseQueryString(query) == parseQueryFrom(query, 1, <<>>)

\* the strings of server.cpp and test_client.cpp
S_ApiPath == <<47, 97, 112, 105, 47, 105, 110, 100, 101, 120, 46, 112, 104, 112>>
S_endpoint == <<101, 110, 100, 112, 111, 105, 110, 116>>
S_tel == <<116, 101, 108>>
S_CIF == <<67, 73, 70>>
S_CID == <<67, 73, 68>>
S_procesareDate_1 == <<112, 114, 111, 99, 101, 115, 97, 114, 101, 68, 97, 116, 101, 95, 49>>
S_Endpoint == <<69, 110, 100, 112, 111, 105, 110, 116>>
S_Tel == <<84, 101, 108>>
S_unknownEndpoint == <<117, 110, 107, 110, 111, 119, 110, 69, 110, 100, 112, 111, 105, 110, 116>>
CRLF == <<13, 10>>

\* params.find(name) != params.end()
ServerHas(params, name) == MapHas(params, name)

\* SimpleHttpServer::handleClient: the status and the body of the response to
\* a request for `target` (the path and the query), at the time `timestamp`
handleClient(target, timestamp) ==
    LET queryPos == Find(target, 63, 1)
        path == IF queryPos # 0 THEN SubSeq(target, 1, queryPos - 1) ELSE target
        params == IF queryPos # 0 THEN parseQueryString(SubSeq(target, queryPos + 1, Len(target)))
                  ELSE <<>>
    IN IF path = S_ApiPath
       THEN IF ServerHas(params, S_endpoint)
            THEN IF MapGet(params, S_endpoint) = S_procesareDate_1
                 THEN IF ServerHas(params, S_tel) /\ ServerHas(params, S_CIF) /\ ServerHas(params, S_CID)
                      THEN [httpCode |-> 200,
                            body |-> <<83, 117, 99, 99, 101, 115, 115, 33, 32, 80, 114, 111, 99, 101, 115, 115, 101, 100, 32, 114, 101, 113, 117, 101, 115, 116, 32, 102, 111, 114, 58>> \o CRLF
                                     \o <<84, 101, 108, 58, 32>> \o MapGet(params, S_tel) \o CRLF
                                     \o <<67, 73, 70, 58, 32>> \o MapGet(params, S_CIF) \o CRLF
                                     \o <<67, 73, 68, 58, 32>> \o MapGet(params, S_CID) \o CRLF
                                     \o <<84, 105, 109, 101, 115, 116, 97, 109, 112, 58, 32>> \o timestamp \o CRLF]
                      ELSE [httpCode |-> 400,
                            body |-> <<69, 114, 114, 111, 114, 58, 32, 77, 105, 115, 115, 105, 110, 103, 32, 114, 101, 113, 117, 105, 114, 101, 100, 32, 112, 97, 114, 97, 109, 101, 116, 101, 114, 115, 32, 40, 116, 101, 108, 44, 32, 67, 73, 70, 44, 32, 67, 73, 68, 41>>]
                 ELSE [httpCode |-> 404,
                       body |-> <<69, 114, 114, 111, 114, 58, 32, 85, 110, 107, 110, 111, 119, 110, 32, 101, 110, 100, 112, 111, 105, 110, 116, 32, 39>> \o MapGet(params, S_endpoint) \o <<39>>]
            ELSE [httpCode |-> 400, body |-> <<69, 114, 114, 111, 114, 58, 32, 77, 105, 115, 115, 105, 110, 103, 32, 39, 101, 110, 100, 112, 111, 105, 110, 116, 39, 32, 112, 97, 114, 97, 109, 101, 116, 101, 114>>]
       ELSE [httpCode |-> 404, body |-> <<69, 114, 114, 111, 114, 58, 32, 80, 97, 116, 104, 32, 110, 111, 116, 32, 102, 111, 117, 110, 100>>]

\* getCurrentTimestamp at two moments
Timestamps == {<<50, 48, 50, 52, 45, 48, 49, 45, 48, 49, 32, 48, 48, 58, 48, 48, 58, 48, 48>>, <<50, 48, 50, 52, 45, 49, 50, 45, 51, 49, 32, 50, 51, 58, 53, 57, 58, 53, 57>>}

\* config.ini for the demonstration: the server on port 8080 of this machine
DemoBaseUrl == <<104, 116, 116, 112, 58, 47, 47, 108, 111, 99, 97, 108, 104, 111, 115, 116, 58, 56, 48, 56, 48, 47, 97, 112, 105, 47, 105, 110, 100, 101, 120, 46, 112, 104, 112>>
DemoConfig == [baseUrl |-> DemoBaseUrl, timeout |-> 4, connectTimeout |-> 2, verifySSL |-> FALSE]

\* the request target curl sends for a URL: what follows the scheme, the host
\* and the port
RequestTarget(u) == SubSeq(u, Find(u, 47, Find(u, 47, Find(u, 47, 1) + 1) + 1), Len(u))

\* curl_easy_perform against the server: the transfer completes and gives the
\* server's status and body
ServerTransport(u, timestamp) ==
    [res |-> CURLE_OK,
     httpCode |-> handleClient(RequestTarget(u), timestamp).httpCode,
     body |-> handleClient(RequestTarget(u), timestamp).body]

\* createInputBuffer of test_client.cpp: the count in two digits, then the
\* pairs of the std::map in the order of their keys
RECURSIVE MapOf(_)
MapOf(pairs) ==
    IF pairs = <<>> THEN <<>>
    ELSE MapAssign(MapOf(SubSeq(pairs, 1, Len(pairs) - 1)),
                   pairs[Len(pairs)][1], pairs[Len(pairs)][2])
createInputBuffer(params) ==
    Digits2(Len(params))
    \o Flatten([i \in DOMAIN params |->
                   Pad(SubSeq(params[i].key, 1, Min(Len(params[i].key), KEY_SIZE)), KEY_SIZE)
                   \o Pad(SubSeq(params[i].value, 1, Min(Len(params[i].value), VALUE_SIZE)),
                          VALUE_SIZE)])

\* the parameters of the tests: the four test cases (keys "Endpoint" and
\* "Tel"), and the same with the keys as the server spells them
V_Tel == <<48, 55, 52, 52, 53, 49, 54, 52, 53, 54>>
V_CIF == <<49, 50, 51, 52, 75, 84, 69>>
V_CID == <<49, 57, 51, 54, 57, 49, 48, 51, 54, 52, 48, 49, 54, 55, 51>>
TestParameters ==
    { MapOf(<< <<ek, ev>> >> \o cf \o << <<tk, V_Tel>> >> \o rest) :
        ek \in {S_Endpoint, S_endpoint}, ev \in {S_procesareDate_1, S_unknownEndpoint},
        cf \in {<<>>, << <<CFResp, Yes>> >>}, tk \in {S_Tel, S_tel},
        rest \in {<<>>, << <<S_CIF, V_CIF>>, <<S_CID, V_CID>> >>} }
DemoDataIns == {Ptr(createInputBuffer(p)) : p \in TestParameters}

\* the test's calls, with the server running
NextDemo ==
    \/ \E in \in DemoDataIns : DecodeStep(in, Ptr(Fill(0, OUT_SIZE)))
    \/ \E handle \in BOOLEAN : BuildUrlStep(handle, DemoConfig)
    \/ \E timestamp \in Timestamps : PerformStep(ServerTransport(url, timestamp))
    \/ MapResponseStep

SpecDemo == Init /\ [][NextDemo]_vars

\* ---- DllMain

\* a process attach that calls curl_global_init whatever the flag says
ShouldInit_Unguarded(reason, flag) == reason = DLL_PROCESS_ATTACH

\* if (ul_reason_for_call == DLL_PROCESS_ATTACH) { ... if (!curlGlobalInitialized)
ShouldInit(reason, flag) == reason = DLL_PROCESS_ATTACH /\ ~flag
\* a cleanup that waits for as many detaches as there were attaches
ShouldCleanup_WhenBalanced(reason, flag) ==
    reason = DLL_PROCESS_DETACH /\ flag /\ notified.detach >= notified.attach

\* else if (ul_reason_for_call == DLL_PROCESS_DETACH) { ... if (curlGlobalInitialized)
ShouldCleanup(reason, flag) == reason = DLL_PROCESS_DETACH /\ flag

\* what a DllMain step leaves alone: the call of the thread and the other threads
dllFrame == << callVars, g_lastErrorMessage, calls, lastFailure, thread, suspended >>

\* the loader calls DllMain(hModule, ul_reason_for_call, lpReserved) on this thread
DllMainEnterStep(reason) ==
    /\ dllPc = "out"
    /\ notified.attach + notified.detach < MaxNotifications
    /\ notified' = IF reason = DLL_PROCESS_ATTACH
                   THEN [notified EXCEPT !.attach = @ + 1]
                   ELSE [notified EXCEPT !.detach = @ + 1]
    /\ dllPc' = "enter"
    /\ ul_reason_for_call' = reason
    /\ UNCHANGED << dllFrame, curlInitMutex, curlGlobalInitialized, globalInits >>

\* std::lock_guard<std::mutex> lock(curlInitMutex): waits until the mutex is free
DllMainLockStep ==
    /\ dllPc = "enter"
    /\ curlInitMutex = 0
    /\ curlInitMutex' = thread
    /\ notified' = [notified EXCEPT !.last = ul_reason_for_call]
    /\ dllPc' = "locked"
    /\ UNCHANGED << dllFrame, ul_reason_for_call, curlGlobalInitialized, globalInits >>

\* the test of the flag and the call it guards: curl_global_init(CURL_GLOBAL_DEFAULT)
\* or curl_global_cleanup()
DllMainCallStep ==
    /\ dllPc = "locked"
    /\ IF ShouldInit(ul_reason_for_call, curlGlobalInitialized)
       THEN globalInits' = globalInits + 1 /\ dllPc' = "called"
       ELSE IF ShouldCleanup(ul_reason_for_call, curlGlobalInitialized)
       THEN globalInits' = globalInits - 1 /\ dllPc' = "called"
       ELSE globalInits' = globalInits /\ dllPc' = "unlock"
    /\ UNCHANGED << dllFrame, ul_reason_for_call, curlInitMutex, curlGlobalInitialized, notified >>

\* curlGlobalInitialized = true; or curlGlobalInitialized = false;
DllMainFlagStep ==
    /\ dllPc = "called"
    /\ curlGlobalInitialized' = (ul_reason_for_call = DLL_PROCESS_ATTACH)
    /\ dllPc' = "unlock"
    /\ UNCHANGED << dllFrame, ul_reason_for_call, curlInitMutex, globalInits, notified >>

\* the lock_guard goes out of scope; return TRUE
DllMainUnlockStep ==
    /\ dllPc = "unlock"
    /\ curlInitMutex' = 0
    /\ dllPc' = "out"
    /\ UNCHANGED << dllFrame, ul_reason_for_call, curlGlobalInitialized, globalInits, notified >>

\* process attach and process detach notifications, on any thread, in any order
NextDllMain ==
    \/ \E reason \in {DLL_PROCESS_ATTACH, DLL_PROCESS_DETACH} : DllMainEnterStep(reason)
    \/ DllMainLockStep
    \/ DllMainCallStep
    \/ DllMainFlagStep
    \/ DllMainUnlockStep
    \/ \E t \in Threads : SwitchStep(t)

SpecDllMain == Init /\ [][NextDllMain]_vars

\* ------------------------------------------------------------ properties

Returned == pc = "returned"
\* the call got past the null check and the count check, so the loop has run
Decoded == pc \in {"decoded", "built", "responded"} \/ (Returned /\ ~dataIn.null /\ ~UGreater(numParameters, 100))
\* the block that writes the response has run
Written == Returned /\ result = SUCCESS /\ shouldReturnResponse /\ ~dataOut.null

\* the string a fixed field of `size` bytes at 0-based offset `off` holds: its
\* bytes up to the first zero byte, all of them if it has none
FieldString(mem, off, size) ==
    LET zeros == {j \in 1..size : mem[off + j] = 0} IN
    IF zeros = {} THEN SubSeq(mem, off + 1, off + size)
    ELSE SubSeq(mem, off + 1, off + (CHOOSE j \in zeros : \A k \in zeros : j <= k) - 1)

RecordKey(mem, i) == FieldString(mem, 2 + 160 * i, 32)
RecordValue(mem, i) == FieldString(mem, 2 + 160 * i + 32, 128)

\* C1: a call returns 0 exactly when its input pointer is not null, the parsed
\* count is at most 100, a curl handle was created, the transfer completed
\* without error and the final status is in 200..299; it returns 1 otherwise.
C1_ResultZeroIff ==
    Returned =>
        /\ result \in {0, 1}
        /\ result = 0 <=>
              /\ ~dataIn.null
              /\ ~UGreater(numParameters, 100)
              /\ curl # "none"
              /\ performs = 1 /\ res = CURLE_OK
              /\ httpCode >= 200 /\ httpCode <= 299

\* a call that returned 0 on the last accepted status
C1_Witness == Returned /\ result = 0 /\ httpCode = 299

\* C2: every record's key is its 32-byte field up to the first zero byte (the
\* whole field if there is none) and its value the same of the 128-byte field
\* that follows: the map holds each such key, with the value of the last
\* record that has it, and nothing else.
C2_FieldsDecoded ==
    Decoded =>
        LET n == UValue(numParameters)
            mem == dataIn.mem
        IN /\ \A i \in 0..(n - 1) :
                 /\ MapHas(parameters, RecordKey(mem, i))
                 /\ (\A j \in (i + 1)..(n - 1) : RecordKey(mem, j) # RecordKey(mem, i))
                        => MapGet(parameters, RecordKey(mem, i)) = RecordValue(mem, i)
           /\ \A e \in DOMAIN parameters :
                 \E i \in 0..(n - 1) : parameters[e].key = RecordKey(mem, i)
           /\ \A e \in DOMAIN parameters : Len(parameters[e].key) <= 32 /\ Len(parameters[e].value) <= 128

\* a decoded buffer with a key field and a value field that hold no zero byte
C2_Witness ==
    /\ pc = "decoded"
    /\ MapHas(parameters, KeyFull)
    /\ \E e \in DOMAIN parameters : parameters[e].value = ValFull

\* the keys of the records of the inbound buffer, and the value the last
\* record with key k gives it
InputKeys == {RecordKey(dataIn.mem, i) : i \in 0..(UValue(numParameters) - 1)}
LastValue(k) ==
    LET is == {i \in 0..(UValue(numParameters) - 1) : RecordKey(dataIn.mem, i) = k} IN
    RecordValue(dataIn.mem, CHOOSE i \in is : \A j \in is : j <= i)

\* byte-wise ascending order of two different keys
KeyBefore(a, b) ==
    LET diff == {i \in 1..Min(Len(a), Len(b)) : a[i] # b[i]} IN
    IF diff = {} THEN Len(a) < Len(b)
    ELSE LET d == CHOOSE i \in diff : \A j \in diff : i <= j IN a[d] < b[d]

\* the keys of S in ascending order
RECURSIVE Ascending(_)
Ascending(S) ==
    IF S = {} THEN <<>>
    ELSE LET lo == CHOOSE k \in S : \A o \in S \ {k} : KeyBefore(k, o) IN
         <<lo>> \o Ascending(S \ {lo})

\* key=value pairs joined by "&"
RECURSIVE JoinAmp(_)
JoinAmp(segs) ==
    IF segs = <<>> THEN <<>>
    ELSE IF Len(segs) = 1 THEN segs[1]
    ELSE segs[1] \o <<38>> \o JoinAmp(Tail(segs))

\* the query of a URL (the bytes after its first "?") cut at every "&", and
\* of each piece the bytes before its first "="
Query(u) ==
    LET q == CHOOSE i \in 1..Len(u) : u[i] = 63 /\ \A j \in 1..(i - 1) : u[j] # 63 IN
    SubSeq(u, q + 1, Len(u))
CutAt(s, sep) ==
    LET at == {i \in 1..Len(s) : s[i] = sep}
        nth(k) == IF k = 0 THEN 0
                  ELSE IF k > Cardinality(at) THEN Len(s) + 1
                  ELSE CHOOSE i \in at : Cardinality({j \in at : j < i}) = k - 1
    IN IF s = <<>> THEN <<>>
       ELSE [k \in 1..(Cardinality(at) + 1) |-> SubSeq(s, nth(k - 1) + 1, nth(k) - 1)]
QueryKeys(u) ==
    LET parts == CutAt(Query(u), 38) IN
    [k \in DOMAIN parts |-> IF \E i \in DOMAIN parts[k] : parts[k][i] = 61
                            THEN CutAt(parts[k], 61)[1] ELSE parts[k]]

\* the inbound buffer with its records in the order f gives
Permuted(mem, n, f) ==
    SubSeq(mem, 1, 2) \o Flatten([i \in 1..n |-> SubSeq(mem, 2 + 160 * f[i] + 1, 2 + 160 * (f[i] + 1))])
RecordOrders(n) == {f \in [1..n -> 0..(n - 1)] : \A i, j \in 1..n : f[i] = f[j] => i = j}

Forwarded == SelectSeq(parameters, LAMBDA e : e.key # CFResp)

Unreserved == (48..57) \cup (65..90) \cup (97..122) \cup {45, 95, 46, 126}
\* the value of a hex digit, upper or lower case (16 for any other byte)
HexValue(d) ==
    IF d >= 48 /\ d <= 57 THEN d - 48
    ELSE IF d >= 65 /\ d <= 70 THEN d - 55
    ELSE IF d >= 97 /\ d <= 102 THEN d - 87
    ELSE 16
\* where byte i of v starts in its encoding (0-based), and the whole length
EncodedOffset(v, i) == (i - 1) + 2 * Cardinality({j \in 1..(i - 1) : v[j] \notin Unreserved})
\* enc is v with every unreserved byte kept and every other byte as "%XX"
IsPercentEncodingOf(enc, v) ==
    /\ Len(enc) = EncodedOffset(v, Len(v) + 1)
    /\ \A i \in DOMAIN v :
          LET o == EncodedOffset(v, i) IN
          IF v[i] \in Unreserved THEN enc[o + 1] = v[i]
          ELSE /\ enc[o + 1] = 37
               /\ HexValue(enc[o + 2]) * 16 + HexValue(enc[o + 3]) = v[i]

\* C5: the encoding of a value keeps letters, digits and - _ . ~ and writes
\* every other byte as % and its two hex digits: a space is %20, not +, and
\* "a b&c" is "a%20b%26c".  It is read off the URL (the value of the last
\* forwarded pair ends it) and off UrlEncode for every value of the map.
C5_PercentEncoding ==
    pc = "built" =>
        /\ \A e \in DOMAIN parameters :
              LET v == parameters[e].value
                  enc == UrlEncode(v)
              IN /\ IsPercentEncodingOf(enc, v)
                 /\ (\E i \in DOMAIN v : v[i] = 32) => \A i \in DOMAIN enc : enc[i] # 43
                 /\ v = <<97, 32, 98, 38, 99>> => enc = <<97, 37, 50, 48, 98, 37, 50, 54, 99>>
        /\ Forwarded # <<>> =>
              LET v == Forwarded[Len(Forwarded)].value
                  l == EncodedOffset(v, Len(v) + 1)
              IN /\ Len(url) > l
                 /\ url[Len(url) - l] = 61
                 /\ IsPercentEncodingOf(SubSeq(url, Len(url) - l + 1, Len(url)), v)
                 /\ v = <<97, 32, 98, 38, 99>> =>
                        SubSeq(url, Len(url) - l + 1, Len(url)) = <<97, 37, 50, 48, 98, 37, 50, 54, 99>>

\* a URL that ends with the encoding of "a b&c"
C5_Witness ==
    /\ pc = "built"
    /\ Forwarded # <<>>
    /\ Forwarded[Len(Forwarded)].value = <<97, 32, 98, 38, 99>>

\* no record of the inbound buffer is CFResp = "yes"
NoYesRecord ==
    \A i \in 0..(UValue(numParameters) - 1) :
        ~(RecordKey(dataIn.mem, i) = CFResp /\ RecordValue(dataIn.mem, i) = Yes)

C7_WriteExtent ==
    pc # "idle" =>
        /\ Len(outBuffer) = Len(dataOut.mem)
        /\ \A i \in DOMAIN outBuffer : i > 162 => outBuffer[i] = dataOut.mem[i]
        /\ Written =>
              /\ outBuffer[1] = 48 /\ outBuffer[2] = 49
              /\ SubSeq(outBuffer, 3, 34) = CFResp \o [i \in 1..26 |-> 0]
              /\ \A i \in 35..162 : outBuffer[i] \in {0} \cup {responseData[j] : j \in DOMAIN responseData}
              /\ dataOut.mem[1] = 170 => \A i \in 1..162 : outBuffer[i] # 170

\* a written buffer whose bytes were all 0xAA before the call
C7_Witness == Written /\ dataOut.mem[1] = 170 /\ Len(outBuffer) > 162

\* the value field of the outbound buffer
ValueField == SubSeq(outBuffer, 35, 162)
\* the number of bytes of body before its first zero byte (all, if it has none)
TextLength(body) ==
    Cardinality({i \in DOMAIN body : \A j \in 1..i : body[j] # 0})

\* C8 as stated: the value field is the first min(len(body), 127) bytes of the
\* body and then zero bytes, for every body.
C8_FirstBytesOfBody ==
    Written =>
        LET k == Min(Len(responseData), 127) IN
        ValueField = SubSeq(responseData, 1, k) \o [i \in 1..(128 - k) |-> 0]

\* C8 amended: the value field is the first min(n, 127) bytes of the body and
\* then zero bytes, where n counts the bytes of the body before its first
\* zero byte; its last byte is always zero.
C8_FirstBytesOfText ==
    Written =>
        LET k == Min(TextLength(responseData), 127) IN
        /\ ValueField = SubSeq(responseData, 1, k) \o [i \in 1..(128 - k) |-> 0]
        /\ ValueField[128] = 0

\* a written buffer for a body of more than 127 bytes
C8_Witness == Written /\ Len(responseData) > 127 /\ ValueField[127] # 0

\* C9: the control flag is true exactly when the ParameterSet maps CFResp to
\* "yes", also when the buffer has several CFResp records and the set keeps
\* the last.
C9_FlagIffParameterSet ==
    Decoded =>
        (shouldReturnResponse <=> (CFResp \in InputKeys /\ LastValue(CFResp) = Yes))

\* the call was turned down for its count: result 1 with that message, no
\* record read, no handle, no URL, no request
CountRejected ==
    /\ Returned /\ result = 1
    /\ g_lastErrorMessage.fmt = "Too many parameters: %d (maximum is 100)"
    /\ parameters = <<>> /\ ~shouldReturnResponse
    /\ curl = "none" /\ url = <<>> /\ performs = 0

Header == <<dataIn.mem[1], dataIn.mem[2]>>
TwoDigits == IsDigit(Header[1]) /\ IsDigit(Header[2])
\* the call was not turned down for its count and the loop has left the map empty
DecodedEmpty == Decoded /\ numParameters = [hi |-> 0, lo |-> 0] /\ parameters = <<>>

\* C11 as stated: a header that is not two digits gives a count of 0 and an
\* empty ParameterSet, and the call goes on.
C11_NonDigitHeaderIsZero ==
    (pc # "idle" /\ ~dataIn.null /\ ~TwoDigits) => DecodedEmpty

\* the number the C library reads from two bytes, case by case: white space
\* is skipped, one sign is taken, digits are read up to the first other byte
HeaderNumber(a, b) ==
    IF IsDigit(a) THEN (IF IsDigit(b) THEN 10 * (a - 48) + (b - 48) ELSE a - 48)
    ELSE IF a = 45 /\ IsDigit(b) THEN 0 - (b - 48)
    ELSE IF (a = 43 \/ a = 32 \/ a \in 9..13) /\ IsDigit(b) THEN b - 48
    ELSE 0

\* C11 amended: the count is the number atoi reads from the header.  It is 0,
\* with an empty ParameterSet and the call going on, when no digit starts that
\* number ("AB") or the digits read are zero ("-0"); a header such as "+1",
\* " 1" or "1x" gives the digit it holds, and "-1" gives a negative number,
\* which as an unsigned count is above 100 and is turned down.
C11_HeaderParsedAsAtoi ==
    (pc # "idle" /\ ~dataIn.null) =>
        LET v == HeaderNumber(Header[1], Header[2]) IN
        /\ v >= 0 => numParameters = [hi |-> 0, lo |-> v] /\ Decoded
        /\ v = 0 => DecodedEmpty
        /\ v < 0 => numParameters = [hi |-> 65535, lo |-> 65536 + v] /\ CountRejected
        /\ (v > 0 /\ pc = "decoded") => parameters # <<>>

\* a call whose header is "+1" and whose one record has been decoded
C11_Witness == pc = "decoded" /\ Header = <<43, 49>> /\ Len(parameters) = 1

\* C12: with a count n of at most 100 the call reads the offsets 0 .. 2 + 160n - 1
\* of the inbound buffer and no other: the two header bytes, then for each
\* i < n the 160 bytes from 2 + 160i, one record after the other; a buffer of
\* exactly 2 + 160n bytes is read inside its bounds.
C12_ReadsWithinRecords ==
    (pc # "idle" /\ ~dataIn.null /\ ~UGreater(numParameters, 100)) =>
        LET n == UValue(numParameters) IN
        /\ readOffsets = 0..(2 + 160 * n - 1)
        /\ \A i \in 0..(n - 1) : RecordReads(i) = (2 + 160 * i)..(2 + 160 * (i + 1) - 1)
        /\ \A i, j \in 0..(n - 1) : i # j => RecordReads(i) \cap RecordReads(j) = {}
        /\ \A o \in readOffsets : o < 2 + 160 * n /\ o < Len(dataIn.mem)

\* a buffer of two records and exactly 322 bytes, read to its last byte
C12_Witness ==
    /\ pc = "decoded"
    /\ numParameters = [hi |-> 0, lo |-> 2]
    /\ Len(dataIn.mem) = 322
    /\ 321 \in readOffsets

\* the header counts a record that does not fit in the buffer that was passed
Truncated ==
    /\ pc # "idle" /\ ~dataIn.null /\ ~UGreater(numParameters, 100)
    /\ \E i \in 0..(UValue(numParameters) - 1) : 2 + 160 * i + 32 + 128 > Len(dataIn.mem)

\* C13: a call whose header counts more records than the buffer holds fails
\* with result 1 and reads no byte outside the buffer.
C13_TruncatedBufferFails ==
    Truncated =>
        /\ \A o \in readOffsets : o < Len(dataIn.mem)
        /\ Returned /\ result = 1

\* the keys that more than one record of the inbound buffer has
DuplicateKeys ==
    LET n == UValue(numParameters) IN
    {k \in InputKeys : \E i, j \in 0..(n - 1) : i # j /\ RecordKey(dataIn.mem, i) = k
                                                 /\ RecordKey(dataIn.mem, j) = k}
\* the places of the URL where a pair for key k starts: "?" or "&", the key, "="
PairStarts(k) ==
    {p \in (Len(config.baseUrl) + 1)..(Len(url) - Len(k) - 1) :
        /\ url[p] \in {63, 38}
        /\ SubSeq(url, p + 1, p + Len(k)) = k
        /\ url[p + Len(k) + 1] = 61}
\* the bytes of the pair that starts at p, after its "=" and up to the next "&"
PairValue(k, p) ==
    LET from == p + Len(k) + 2
        amps == {q \in from..Len(url) : url[q] = 38}
        to == IF amps = {} THEN Len(url) ELSE (CHOOSE q \in amps : \A r \in amps : q <= r) - 1
    IN SubSeq(url, from, to)
\* the map holds key k once, with the value of the last record that has it
HeldOnceWithLast(k) ==
    /\ Cardinality({e \in DOMAIN parameters : parameters[e].key = k}) = 1
    /\ MapGet(parameters, k) = LastValue(k)
\* the URL has one pair for key k, and its value is that of the last record
CarriedOnceWithLast(k) ==
    /\ Cardinality(PairStarts(k)) = 1
    /\ \A p \in PairStarts(k) : IsPercentEncodingOf(PairValue(k, p), LastValue(k))

\* C14 as stated: a key that several records have is held once by the
\* ParameterSet, with the value of the last of them, and carried once by the
\* URL, with that value.
C14_DuplicateKeyLastWins ==
    pc = "built" => \A k \in DuplicateKeys : HeldOnceWithLast(k) /\ CarriedOnceWithLast(k)

\* C14 amended: the same, except that the URL carries no pair for the key
\* CFResp, which the ParameterSet holds like any other.
C14_DuplicateKeyLastWinsButControl ==
    pc = "built" =>
        /\ \A k \in DuplicateKeys :
              /\ HeldOnceWithLast(k)
              /\ k # CFResp => CarriedOnceWithLast(k)
        /\ (CFResp \in DuplicateKeys
              /\ \A e \in DOMAIN parameters : \A i \in DOMAIN parameters[e].key :
                    parameters[e].key[i] \notin {38, 61, 63})
           => \A i \in DOMAIN QueryKeys(url) : QueryKeys(url)[i] # CFResp

\* a URL built from two records with key "a", the second of value "1"
C14_Witness ==
    /\ pc = "built"
    /\ <<97>> \in DuplicateKeys
    /\ RecordValue(dataIn.mem, 0) # RecordValue(dataIn.mem, 1)
    /\ LastValue(<<97>>) = <<49>>

\* the description of the failure of the call that has just returned 1, from
\* what went wrong in it
FailureDescription ==
    IF dataIn.null THEN [fmt |-> "Invalid input: dataIn is null", num |-> 0, str |-> ""]
    ELSE IF UGreater(numParameters, 100)
         THEN [fmt |-> "Too many parameters: %d (maximum is 100)",
               num |-> HeaderNumber(Header[1], Header[2]), str |-> ""]
    ELSE IF caught.thrown
         THEN (IF caught.std THEN [fmt |-> "Unexpected exception: %s", num |-> 0, str |-> caught.what]
               ELSE [fmt |-> "Unknown exception occurred", num |-> 0, str |-> ""])
    ELSE IF curl = "none" THEN [fmt |-> "Failed to initialize curl", num |-> 0, str |-> ""]
    ELSE IF res # CURLE_OK
         THEN [fmt |-> "Curl request failed: %s", num |-> 0,
               str |-> IF res = 7 THEN "Couldn't connect to server" ELSE "Timeout was reached"]
    ELSE [fmt |-> "HTTP error: received status code %ld", num |-> httpCode, str |-> ""]

\* C15: a call that returns 1 has set the thread's last-error message, before
\* it returns, to a description of its own failure, which is not empty: null
\* input, too many parameters, no curl handle, transport error, status outside
\* 200..299, or an exception that was caught; a call returns 0 or 1.
C15_FailureSetsMessage ==
    /\ result \in {-1, 0, 1}
    /\ Returned =>
          /\ result \in {0, 1}
          /\ result = 1 =>
                /\ GetLastErrorMessage.fmt # ""
                /\ GetLastErrorMessage = FailureDescription

\* a second call that fails on a null input after a first that failed on its
\* status: the message is that of the second
C15_Witness ==
    /\ Returned /\ result = 1 /\ dataIn.null
    /\ calls = 1
    /\ lastFailure.fmt = "HTTP error: received status code %ld"
    /\ GetLastErrorMessage.fmt = "Invalid input: dataIn is null"

\* C16: between and during the calls of a thread, for as long as the call in
\* progress has not failed, GetLastErrorMessage is what the most recent failed
\* call of that thread left (what the host read after it), and the empty
\* string if no call has failed.
C16_MostRecentFailure ==
    (pc # "returned" \/ result = 0) =>
        /\ GetLastErrorMessage = lastFailure
        /\ calls = 0 => GetLastErrorMessage = NoMessage

\* a call that succeeded after a call that could not connect: the message of
\* the failure is still there
C16_Witness ==
    /\ Returned /\ result = 0
    /\ calls = 1
    /\ lastFailure.fmt = "Curl request failed: %s"
    /\ GetLastErrorMessage = lastFailure

\* what GetLastErrorMessage returns when thread t calls it
MessageOf(t) == IF t = thread THEN g_lastErrorMessage ELSE suspended[t].g_lastErrorMessage
\* what the host has read on thread t after its most recent failed call
LastFailureOf(t) == IF t = thread THEN lastFailure ELSE suspended[t].lastFailure

\* thread t is not in a call that has failed
NotInFailedCall(t) ==
    IF t = thread THEN pc # "returned" \/ result = 0
    ELSE suspended[t].pc # "returned" \/ suspended[t].result = 0

\* C17: a step of one thread, a failure of its call among them, leaves what
\* GetLastErrorMessage returns on every other thread as it was, and so does a
\* switch from one thread to another; the message a thread reads is the one
\* its own most recent failed call has set.
C17_MessagePerThread ==
    /\ [][\A t \in Threads : (t # thread \/ thread' # thread) => MessageOf(t)' = MessageOf(t)]_vars
    /\ [](\A t \in Threads : NotInFailedCall(t) => MessageOf(t) = LastFailureOf(t))

\* thread 2 has failed on a null input while thread 1, which has not failed,
\* is inside a call
C17_Witness ==
    /\ thread = 2 /\ Returned /\ result = 1
    /\ g_lastErrorMessage.fmt = "Invalid input: dataIn is null"
    /\ suspended[1].pc = "built"
    /\ suspended[1].g_lastErrorMessage = NoMessage

\* where thread t is in DllMain
DllPcOf(t) == IF t = thread THEN dllPc ELSE suspended[t].dllPc

\* C18: whatever the order of the process attach and process detach
\* notifications and the threads they come on, curl_global_init and
\* curl_global_cleanup alternate, curl_global_init first: the calls of the one
\* less the calls of the other are 0 or 1 at all times, and a step changes
\* that number by one at most.  With the mutex free, curlGlobalInitialized is
\* true exactly when the library has been initialised and not cleaned up.
C18_InitCleanupAlternate ==
    /\ [](globalInits \in {0, 1})
    /\ [](curlInitMutex = 0 => (curlGlobalInitialized <=> globalInits = 1))
    /\ [](curlInitMutex # 0 => DllPcOf(curlInitMutex) \in {"locked", "called", "unlock"})
    /\ [](\A t \in Threads : DllPcOf(t) \in {"locked", "called", "unlock"} => curlInitMutex = t)
    /\ [][globalInits' # globalInits =>
             /\ dllPc = "locked" /\ curlInitMutex = thread
             /\ globalInits' = IF ul_reason_for_call = DLL_PROCESS_ATTACH THEN 1 ELSE 0]_vars

\* a process attach on thread 2 that finds the library initialised by thread 1
\* and calls nothing, while thread 1 waits with a process detach
C18_Witness ==
    /\ thread = 2 /\ dllPc = "unlock" /\ ul_reason_for_call = DLL_PROCESS_ATTACH
    /\ curlGlobalInitialized /\ globalInits = 1
    /\ suspended[1].dllPc = "enter" /\ suspended[1].ul_reason_for_call = DLL_PROCESS_DETACH

\* C19: a call runs curl_easy_perform once at most, and not again after it has
\* failed; not at all when dataIn is null, the count is turned down or
\* curl_easy_init gives no handle.
C19_AtMostOneRequest ==
    /\ performs \in {0, 1}
    /\ (performs = 1 /\ (res # CURLE_OK \/ httpCode < 200 \/ httpCode > 299)) => Returned /\ result = 1
    /\ (Returned /\ (dataIn.null \/ UGreater(numParameters, 100) \/ curl = "none")) =>
          performs = 0 /\ result = 1
    /\ pc \in {"idle", "decoded", "built"} => performs = 0
    /\ pc = "responded" => performs = 1

\* a call that has returned 1 after one transfer that could not connect
C19_Witness == Returned /\ result = 1 /\ performs = 1 /\ res = 7

\* the place of a phase in the order of the call
PhaseRank(p) ==
    CASE p = "idle" -> 0 [] p = "decoded" -> 1 [] p = "built" -> 2 [] p = "responded" -> 3
      [] p = "returned" -> 4

\* C20: a call goes from Decode to BuildUrl to Transport.get to MapResponse,
\* one after the other and never back, or leaves for the error return; it ends,
\* with result 0 or 1 and not both, once the transfer has returned; the
\* outbound buffer changes in MapResponse only, after a transfer that gave a
\* status in 200..299.
C20_LinearPhases ==
    /\ [][pc' # pc => (PhaseRank(pc') = PhaseRank(pc) + 1 \/ (pc' = "returned" /\ result' = 1))]_vars
    /\ [][(pc # "idle" /\ outBuffer' # outBuffer) =>
             /\ pc = "responded" /\ pc' = "returned" /\ result' = 0
             /\ performs = 1 /\ res = CURLE_OK /\ httpCode >= 200 /\ httpCode <= 299]_vars
    /\ [](Returned <=> result \in {0, 1})
    /\ [][Returned => (pc' = pc /\ result' = result)]_vars
    /\ <>Returned

\* a call that went through the four phases and changed the outbound buffer
C20_Witness ==
    /\ Written /\ performs = 1 /\ httpCode = 200
    /\ outBuffer # dataOut.mem
    /\ url # <<>>

\* the first 162 bytes of the outbound buffer, as an inbound buffer
OutboundImage == SubSeq(outBuffer, 1, 162)

\* C21: the 162 bytes a successful call with CFResp = "yes" has written, given
\* to the decoder, have the count 1 and decode to the one pair (CFResp, v),
\* where v is the body as the 128-byte field keeps it: its bytes up to the
\* first zero byte, 127 of them at most.
C21_OutboundDecodesBack ==
    Written =>
        LET n == ParseCount(OutboundImage)
            v == SubSeq(responseData, 1, Min(TextLength(responseData), 127))
        IN /\ n = [hi |-> 0, lo |-> 1]
           /\ ~TooManyParameters(n)
           /\ Decode(OutboundImage, UValue(n)).parameters = <<[key |-> CFResp, value |-> v]>>
           /\ Len(v) <= 127
           /\ HeaderReads \cup LoopReads(UValue(n)) = 0..161

\* a buffer of 0xAA bytes that now holds the pair (CFResp, "Success!")
C21_Witness ==
    /\ Written /\ responseData = BodySuccess /\ dataOut.mem[1] = 170
    /\ Decode(OutboundImage, 1).parameters = <<[key |-> CFResp, value |-> BodySuccess]>>

\* what a call gives when nothing of an earlier call is looked at: its result
\* code, the URL it requests and the bytes it leaves in the outbound buffer,
\* from the inbound buffer `in`, the outbound buffer `out` as passed, the base
\* URL, whether curl_easy_init gave a handle, the exception thrown (if any)
\* and what the transport gave
OutcomeOf(in, out, baseUrl, handle, e, tRes, tCode, tBody) ==
    LET failed == [result |-> FAIL, url |-> <<>>, outBuffer |-> out.mem] IN
    IF in.null THEN failed
    ELSE IF TooManyParameters(ParseCount(in.mem)) THEN failed
    ELSE IF e.thrown \/ ~handle THEN failed
    ELSE LET d == Decode(in.mem, UValue(ParseCount(in.mem)))
             u == BuildUrl(baseUrl, d.parameters)
         IN IF tRes # CURLE_OK \/ IsHttpError(tCode)
            THEN [failed EXCEPT !.url = u]
            ELSE [result |-> SUCCESS, url |-> u,
                  outBuffer |-> IF d.shouldReturnResponse /\ ~out.null
                                THEN WriteResponse(out.mem, tBody) ELSE out.mem]

\* the threads other than the running one that have made a call
CalledBefore == {t \in Threads \ {thread} : suspended[t].calls > 0 \/ suspended[t].pc # "idle"}

\* C22: the result code, the URL and the outbound bytes of a call that has
\* returned are those the call's own inputs give (inbound buffer, outbound
\* buffer as passed, configuration, what curl_easy_init, the allocator and the
\* transport gave to this call), whatever calls came before it on this thread
\* or on another.
C22_OutcomeIgnoresHistory ==
    Returned =>
        LET o == OutcomeOf(dataIn, dataOut, config.baseUrl, curl # "none", caught,
                           res, httpCode, responseData)
        IN result = o.result /\ url = o.url /\ outBuffer = o.outBuffer

\* a call that succeeds and writes after a failed call on the same thread and
\* calls on the other thread
C22_Witness ==
    /\ Written /\ calls > 0 /\ g_lastErrorMessage # NoMessage /\ CalledBefore # {}
    /\ url # <<>> /\ outBuffer # dataOut.mem

\* C23: with the base URL of CONFIG, every step of the configurable variant's
\* call is the step the compile-time variant takes on the same inbound
\* buffer, outbound buffer and transport outcome: the same result code, the
\* same URL and the same outbound bytes; the steps differ in the error
\* message alone, which the compile-time variant does not have.
C23_StaticVariantAgrees ==
    [][ \/ config'.baseUrl # Static_CONFIG.baseUrl /\ pc' = "built"
        \/ Static_DecodeStep(dataIn', dataOut')
        \/ Static_BuildUrlStep(curl' = "live")
        \/ Static_PerformStep([res |-> res', httpCode |-> httpCode', body |-> responseData'])
        \/ Static_MapResponseStep ]_vars

\* a call of the configurable variant, with the base URL of CONFIG, that has
\* written its response
C23_Witness ==
    /\ Returned /\ result = SUCCESS /\ curl = "cleaned"
    /\ config.baseUrl = Static_CONFIG.baseUrl /\ url = BuildUrl(Static_CONFIG.baseUrl, parameters)
    /\ Static_ShouldWrite(shouldReturnResponse, dataOut) /\ outBuffer = WriteResponse(dataOut.mem, responseData)

\* the four values the test gives to CFResp
ControlValues == {Yes, <<102, 97, 108, 115, 101>>, <<48>>, <<49>>}
\* the records of the inbound buffer whose key is CFResp
ControlRecords == {i \in 0..(UValue(numParameters) - 1) : RecordKey(dataIn.mem, i) = CFResp}
\* the inbound buffer with the value w in its CFResp records, all else the same
WithControlValue(w) ==
    Ptr([j \in 1..Len(dataIn.mem) |->
            IF \E i \in ControlRecords : j \in (ValueIndex(i) + 1)..(ValueIndex(i) + VALUE_SIZE)
            THEN Pad(w, VALUE_SIZE)[((j - HEADER_SIZE - 1) % PAIR_SIZE) - KEY_SIZE + 1]
            ELSE dataIn.mem[j]])
\* the call was given CFResp once, with one of the four values
OneControlValue ==
    /\ Returned /\ ~dataIn.null /\ ~TooManyParameters(numParameters)
    /\ Cardinality(ControlRecords) = 1
    /\ \A i \in ControlRecords : RecordValue(dataIn.mem, i) \in ControlValues

TestBasic ==
    Ptr(createInputBuffer(MapOf(<< <<S_Endpoint, S_procesareDate_1>>, <<CFResp, Yes>>,
                                   <<S_Tel, V_Tel>>, <<S_CIF, V_CIF>>, <<S_CID, V_CID>> >>)))
TestMissing ==
    Ptr(createInputBuffer(MapOf(<< <<S_Endpoint, S_procesareDate_1>>, <<CFResp, Yes>>,
                                   <<S_Tel, V_Tel>> >>)))
TestUnknown ==
    Ptr(createInputBuffer(MapOf(<< <<S_Endpoint, S_unknownEndpoint>>, <<CFResp, Yes>>,
                                   <<S_Tel, V_Tel>>, <<S_CIF, V_CIF>>, <<S_CID, V_CID>> >>)))
Contains(s, sub) == \E p \in 1..(Len(s) - Len(sub) + 1) : SubSeq(s, p, p + Len(sub) - 1) = sub

\* C25: against the demonstration server, the call with Endpoint =
\* procesareDate_1, CFResp = yes, Tel, CIF and CID returns 0 and writes a value
\* that contains "Success!"; the call without CIF and CID and the call with an
\* unknown Endpoint value return 1.
C25_DemonstrationScenario ==
    (Returned /\ (curl # "none" \/ dataIn \in {TestMissing, TestUnknown})) =>
        /\ dataIn = TestBasic =>
              /\ result = 0
              /\ Contains(FieldString(outBuffer, HEADER_SIZE + KEY_SIZE, VALUE_SIZE), BodySuccess)
        /\ dataIn \in {TestMissing, TestUnknown} => result = 1

\* no thread is inside DllMain
LoaderQuiet == curlInitMutex = 0 /\ dllPc = "out" /\ \A t \in Threads \ {thread} : suspended[t].dllPc = "out"

\* C26 as stated: the initialisation is counted, so that after k process
\* attaches and j < k process detaches the library is still initialised.
C26_ReferenceCounted ==
    (LoaderQuiet /\ notified.detach < notified.attach) => (globalInits = 1 /\ curlGlobalInitialized)

\* C26: the initialisation is guarded by a flag and not counted: the library
\* is initialised from the first process attach until the first process detach
\* after it, however many attaches came before that detach; once no thread is
\* inside DllMain it is initialised exactly if the notification that took the
\* mutex last was an attach.
C26_FlagNotCount ==
    /\ globalInits \in {0, 1}
    /\ LoaderQuiet =>
          /\ (notified.attach > 0 /\ notified.detach = 0) => (globalInits = 1 /\ curlGlobalInitialized)
          /\ notified.last # -1 =>
                /\ (globalInits = 1) = (notified.last = DLL_PROCESS_ATTACH)
                /\ curlGlobalInitialized = (notified.last = DLL_PROCESS_ATTACH)

\* two attaches, then one detach, and the library is cleaned up
C26_Witness ==
    /\ LoaderQuiet /\ notified.attach = 2 /\ notified.detach = 1 /\ notified.last = DLL_PROCESS_DETACH
    /\ globalInits = 0 /\ ~curlGlobalInitialized

\* C27: a call that returns 1, for whatever reason (null input, count turned
\* down, no curl handle, transport error, status outside 200..299, exception
\* caught), leaves every byte of the outbound buffer as it was before the
\* call, also when CFResp = "yes" was given.
C27_FailureLeavesOutbound ==
    (Returned /\ result = FAIL) => outBuffer = dataOut.mem

\* a call with CFResp = "yes" and an outbound buffer that fails on the status
\* of the response, after an earlier call
C27_Witness ==
    /\ Returned /\ result = FAIL /\ shouldReturnResponse /\ ~dataOut.null
    /\ res = CURLE_OK /\ IsHttpError(httpCode) /\ responseData # <<>>
    /\ outBuffer = Fill(0, OUT_SIZE) /\ calls > 0

\* C28: no step of a call writes the thread's message unless it is the step
\* that makes the call return 1, so a call that returns 0 leaves the message as
\* it found it; and after a failed call and the successful calls that follow
\* it on the thread, GetLastErrorMessage is still the message of that failure.
C28_SuccessKeepsMessage ==
    /\ [][result' # FAIL => g_lastErrorMessage' = g_lastErrorMessage]_vars
    /\ []((Returned /\ result = SUCCESS /\ lastFailure # NoMessage)
              => GetLastErrorMessage = lastFailure)

\* the third call of a thread returns 0 and the message is the one of a call
\* that was turned down for its count
C28_Witness ==
    /\ Returned /\ result = SUCCESS /\ calls = MaxCalls
    /\ lastFailure.fmt = "Too many parameters: %d (maximum is 100)"
    /\ GetLastErrorMessage = lastFailure /\ g_lastErrorMessage # NoMessage

\* the header is '-' and a digit from 1 to 9
MinusDigit == Header[1] = 45 /\ Header[2] \in 49..57

\* C29: a header of two digits gives a count between 0 and 99 and is never
\* turned down by the check against 100; the headers that are turned down are
\* "-1" to "-9" and no others: atoi reads a negative number from them, which
\* stored in the unsigned 32-bit count is 4294967296 less the digit, above 100.
\* (Before the call, for each of the 65536 headers; after it, for the header
\* the call was given.)
C29_OnlyNegativeRejected ==
    /\ pc = "idle" =>
          \A a, b \in 0..255 :
              LET n == ParseCount(<<a, b>>) IN
              /\ TooManyParameters(n) <=> (a = 45 /\ b \in 49..57)
              /\ (IsDigit(a) /\ IsDigit(b)) => (n.hi = 0 /\ n.lo = 10 * (a - 48) + (b - 48))
    /\ (pc # "idle" /\ ~dataIn.null) =>
        /\ TwoDigits =>
              /\ numParameters.hi = 0 /\ numParameters.lo \in 0..99
              /\ ~TooManyParameters(numParameters) /\ ~Returned
        /\ (Returned /\ result = FAIL /\ curl = "none" /\ parameters = <<>>) <=> MinusDigit
        /\ TooManyParameters(numParameters) <=> MinusDigit
        /\ MinusDigit =>
              /\ atoi(<<Header[1], Header[2], 0>>) = 0 - (Header[2] - 48)
              /\ numParameters = [hi |-> 65535, lo |-> 65536 - (Header[2] - 48)]
              /\ g_lastErrorMessage.num = 0 - (Header[2] - 48)

\* the header "-9": the count is 4294967287 and the call is turned down
C29_Witness ==
    /\ Returned /\ result = FAIL /\ Header = <<45, 57>>
    /\ numParameters = [hi |-> 65535, lo |-> 65527]
    /\ g_lastErrorMessage = SetLastErrorMessage("Too many parameters: %d (maximum is 100)", -9, "")

\* C30: the easy handle of a call is released once, by the step that makes the
\* call return (success, transport error, status outside 200..299, exception),
\* and never again; a call whose curl_easy_init gave no handle releases none;
\* no call returns with its handle live, and between the calls there is none.
C30_HandleReleasedOnce ==
    /\ [][curl' # curl =>
            \/ curl = "none" /\ curl' = "live" /\ pc' = "built"
            \/ curl = "live" /\ curl' = "cleaned" /\ pc' = "returned"
            \/ curl = "none" /\ curl' = "cleaned" /\ pc' = "returned" /\ caught'.thrown
            \/ pc = "returned" /\ pc' = "idle" /\ curl' = "none"]_vars
    /\ [][(pc = "decoded" /\ pc' = "returned" /\ ~caught'.thrown) => curl' = "none"]_vars
    /\ [](Returned => curl \in {"none", "cleaned"})
    /\ []((Returned /\ url # <<>>) => curl = "cleaned")
    /\ [](pc = "idle" => curl = "none")
    /\ [](curl = "live" <=> pc \in {"built", "responded"})

\* a later call of the thread got a handle and then caught an exception: the
\* handle is released
C30_Witness ==
    /\ Returned /\ result = FAIL /\ caught.thrown /\ curl = "cleaned" /\ calls > 0
    /\ Decoded /\ readOffsets = HeaderReads \cup LoopReads(UValue(numParameters))

=============================================================================
